---- MODULE Spec2Model ----
(***************************************************************************)
(* A model of Constants.cpp (DragonEgg): conversion of GCC constants to    *)
(* LLVM constants.  Integer contents are kept as bit sequences, least      *)
(* significant bit first, so that no width is lost to machine arithmetic.  *)
(***************************************************************************)
EXTENDS Integers, Sequences, FiniteSets, TLC

VARIABLES
    BYTES_BIG_ENDIAN,   \* the target's byte order (a build-time macro)
    NDEBUG,             \* whether assert() and the #ifndef NDEBUG block are compiled out
    flag_default_initialize_globals,
                        \* GCC's flag: globals with no initial value are zero
    isBigEndianHost,    \* the byte order of the machine the compiler runs on
    pc,                 \* position of the conversion under way
    input,              \* the inputs handed to the conversion
    acc,                \* the object worked on / the value returned
    call                \* the last call made: its name, arguments and the object before it

\* what a compilation never changes
target == <<BYTES_BIG_ENDIAN, NDEBUG, flag_default_initialize_globals, isBigEndianHost>>

vars == <<target, pc, input, acc, call>>

-----------------------------------------------------------------------------
(* Program constants. *)

BITS_PER_UNIT == 8
CHAR_BIT == 8

(* Bounds of the model. *)

\* the bit patterns 0..NumPatterns-1 are drawn as the contents of integers
NumPatterns == 3
\* the slices drawn as inputs start at a bit in -1..MaxSliceBit-1 and are
\* at most MaxSliceWidth bits wide
MaxSliceBit == 3
MaxSliceWidth == 2
\* a constructor drawn as an input has at most MaxEntries entries
MaxEntries == 2
\* StartingBit is drawn from the multiples of 4 up to 4 * MaxStartNibble
MaxStartNibble == 4

-----------------------------------------------------------------------------
(* Outcomes that are not values. *)

\* the conversion was aborted (DieAbjectly, or an assert that fired)
Fault == [fault |-> TRUE]
\* an assert was compiled out and the code went on with its precondition
\* broken where the library underneath has no defined result
Poison == [poison |-> TRUE]
\* a null Constant*
Null == [null |-> TRUE]

IsFault(x) == x = Fault
IsBad(x) == x = Fault \/ x = Poison

\* a failed assert: abort when asserts are compiled in
AssertFailed == IF NDEBUG THEN Poison ELSE Fault

\* a local of the code: v is computed once and Body uses it by name
With(v, Body(_)) == Body(v)
\* the same, a fault in v being the outcome of the whole
Try(v, Body(_)) == IF IsBad(v) THEN v ELSE Body(v)

Max(a, b) == IF a >= b THEN a ELSE b
Min(a, b) == IF a <= b THEN a ELSE b
RoundUp(x, a) == ((x + a - 1) \div a) * a

-----------------------------------------------------------------------------
(* Range<int>: half-open integer intervals (dragonegg/ADT/Range.h). *)

Range(first, last) == [First |-> first, Last |-> last]
EmptyRange == Range(0, 0)
REmpty(r) == r.Last <= r.First
RWidth(r) == IF REmpty(r) THEN 0 ELSE r.Last - r.First
REq(a, b) == (REmpty(a) /\ REmpty(b)) \/ (a.First = b.First /\ a.Last = b.Last)
RContains(a, b) == REmpty(b) \/ (a.First <= b.First /\ b.Last <= a.Last)
RIntersects(a, b) ==
    /\ ~REmpty(a)
    /\ ~REmpty(b)
    /\ a.First < b.Last
    /\ b.First < a.Last
RJoin(a, b) ==
    IF REmpty(b) THEN a
    ELSE IF REmpty(a) THEN b
    ELSE Range(Min(a.First, b.First), Max(a.Last, b.Last))
RMeet(a, b) ==
    IF REmpty(a) \/ REmpty(b) THEN EmptyRange
    ELSE With(Range(Max(a.First, b.First), Min(a.Last, b.Last)),
              LAMBDA r : IF r.First >= r.Last THEN EmptyRange ELSE r)
RDisplace(r, Offset) ==
    IF REmpty(r) THEN r ELSE Range(r.First + Offset, r.Last + Offset)

-----------------------------------------------------------------------------
(* Bit sequences: element 1 is the least significant bit. *)

Zeros(n) == [i \in 1..n |-> 0]
Ones(n) == [i \in 1..n |-> 1]
BitsZExt(b, w) == [i \in 1..w |-> IF i <= Len(b) THEN b[i] ELSE 0]
BitsTrunc(b, w) == [i \in 1..w |-> b[i]]
BitsShl(b, k) == [i \in 1..Len(b) |-> IF i <= k THEN 0 ELSE b[i - k]]
BitsLShr(b, k) == [i \in 1..Len(b) |-> IF i + k <= Len(b) THEN b[i + k] ELSE 0]
BitsAnd(a, b) == [i \in 1..Len(a) |-> IF a[i] = 1 /\ b[i] = 1 THEN 1 ELSE 0]
BitsOr(a, b) == [i \in 1..Len(a) |-> IF a[i] = 1 \/ b[i] = 1 THEN 1 ELSE 0]
BitsNot(a) == [i \in 1..Len(a) |-> 1 - a[i]]
\* APInt::getBitsSet(numBits, loBit, hiBit): bits loBit..hiBit-1 set
getBitsSet(numBits, loBit, hiBit) ==
    [i \in 1..numBits |-> IF loBit < i /\ i <= hiBit THEN 1 ELSE 0]

RECURSIVE BitsToNat(_)
BitsToNat(b) ==
    IF Len(b) = 0 THEN 0 ELSE b[1] + 2 * BitsToNat(Tail(b))

RECURSIVE NatToBits(_, _)
NatToBits(n, w) ==
    IF w = 0 THEN <<>> ELSE <<n % 2>> \o NatToBits(n \div 2, w - 1)

-----------------------------------------------------------------------------
(* LLVM types, and the target's layout oracle (TargetData). *)

IntegerType(w) == [id |-> "Integer", w |-> w]
PointerTy == [id |-> "Pointer"]
FloatTy == [id |-> "Float"]
LabelTy == [id |-> "Label"]
ArrayType(EltTy, NumElts) == [id |-> "Array", elt |-> EltTy, n |-> NumElts]
VectorType(EltTy, NumElts) == [id |-> "Vector", elt |-> EltTy, n |-> NumElts]
StructType(flds, packed) == [id |-> "Struct", flds |-> flds, packed |-> packed]

\* GetUnitType: an array of Units bytes (or a single byte)
GetUnitType(Units) ==
    IF Units = 1 THEN IntegerType(8) ELSE ArrayType(IntegerType(8), Units)

\* width of a pointer and of a float on the target
PointerSizeInBits == 32
FloatSizeInBits == 32
getIntPtrType == IntegerType(PointerSizeInBits)

IsScalarTy(Ty) == Ty.id \in {"Integer", "Pointer", "Float"}
IsAggregateTy(Ty) == Ty.id \in {"Array", "Vector", "Struct"}

\* ABI alignment, in bytes, of an integer of the given width
IntABIAlignment(w) ==
    IF w <= 8 THEN 1 ELSE IF w <= 16 THEN 2 ELSE IF w <= 32 THEN 4 ELSE 8

RECURSIVE NextPowerOf2(_, _)
NextPowerOf2(n, p) == IF p >= n THEN p ELSE NextPowerOf2(n, 2 * p)

RECURSIVE getABITypeAlignment(_)
RECURSIVE getTypeSizeInBits(_)
RECURSIVE getTypeAllocSizeInBits(_)
RECURSIVE StructOffsets(_, _, _, _)
RECURSIVE MaxFieldAlignment(_, _)

getTypeStoreSizeInBits(Ty) == RoundUp(getTypeSizeInBits(Ty), 8)
getTypeAllocSizeInBits(Ty) ==
    RoundUp(getTypeStoreSizeInBits(Ty), 8 * getABITypeAlignment(Ty))

MaxFieldAlignment(flds, i) ==
    IF i > Len(flds) THEN 1
    ELSE Max(getABITypeAlignment(flds[i]), MaxFieldAlignment(flds, i + 1))

getABITypeAlignment(Ty) ==
    CASE Ty.id = "Integer" -> IntABIAlignment(Ty.w)
      [] Ty.id = "Pointer" -> PointerSizeInBits \div 8
      [] Ty.id = "Float" -> FloatSizeInBits \div 8
      [] Ty.id = "Array" -> getABITypeAlignment(Ty.elt)
      [] Ty.id = "Vector" ->
            NextPowerOf2((getTypeAllocSizeInBits(Ty.elt) \div 8) * Ty.n, 1)
      [] Ty.id = "Struct" ->
            IF Ty.packed THEN 1 ELSE MaxFieldAlignment(Ty.flds, 1)
      [] OTHER -> 1

\* StructLayout: byte offsets of the fields from field i on, the running
\* offset being off
StructOffsets(flds, packed, i, off) ==
    IF i > Len(flds) THEN <<>>
    ELSE With(RoundUp(off, IF packed THEN 1 ELSE getABITypeAlignment(flds[i])),
              LAMBDA o :
                  <<o>> \o StructOffsets(flds, packed, i + 1,
                                         o + getTypeAllocSizeInBits(flds[i]) \div 8))

\* the byte offsets of all the fields of a struct type
StructLayout(STy) == StructOffsets(STy.flds, STy.packed, 1, 0)

getElementOffset(STy, i) == StructLayout(STy)[i + 1]
getElementOffsetInBits(STy, i) == 8 * getElementOffset(STy, i)

\* StructLayout::getSizeInBytes
StructSizeInBytes(STy) ==
    IF Len(STy.flds) = 0 THEN 0
    ELSE RoundUp(getElementOffset(STy, Len(STy.flds) - 1)
                   + getTypeAllocSizeInBits(STy.flds[Len(STy.flds)]) \div 8,
                 getABITypeAlignment(STy))

\* StructLayout::getElementContainingOffset: the last field that starts at
\* or before the byte offset
getElementContainingOffset(STy, Offset) ==
    With(StructLayout(STy),
         LAMBDA offs :
             (CHOOSE i \in 1..Len(offs) :
                 /\ offs[i] <= Offset
                 /\ \A j \in 1..Len(offs) : offs[j] <= Offset => j <= i) - 1)

getTypeSizeInBits(Ty) ==
    CASE Ty.id = "Integer" -> Ty.w
      [] Ty.id = "Pointer" -> PointerSizeInBits
      [] Ty.id = "Float" -> FloatSizeInBits
      [] Ty.id = "Array" -> Ty.n * getTypeAllocSizeInBits(Ty.elt)
      [] Ty.id = "Vector" -> Ty.n * getTypeSizeInBits(Ty.elt)
      [] Ty.id = "Struct" -> 8 * StructSizeInBytes(Ty)
      [] OTHER -> 0

\* Type::getPrimitiveSizeInBits
RECURSIVE getPrimitiveSizeInBits(_)
getPrimitiveSizeInBits(Ty) ==
    CASE Ty.id = "Integer" -> Ty.w
      [] Ty.id = "Float" -> FloatSizeInBits
      [] Ty.id = "Vector" -> Ty.n * getPrimitiveSizeInBits(Ty.elt)
      [] OTHER -> 0

-----------------------------------------------------------------------------
(* LLVM constants.  A scalar is its type, its bits and whether it is the   *)
(* undefined value; an aggregate is its type and its elements.             *)

Scalar(Ty, bits) == [ty |-> Ty, bits |-> bits, undef |-> FALSE]
ConstantInt(w, bits) == Scalar(IntegerType(w), bits)
IsUndef(C) == IsScalarTy(C.ty) /\ C.undef

RECURSIVE UndefValue(_)
UndefValue(Ty) ==
    CASE IsScalarTy(Ty) ->
            [ty |-> Ty, bits |-> Zeros(getTypeSizeInBits(Ty)), undef |-> TRUE]
      [] Ty.id \in {"Array", "Vector"} ->
            [ty |-> Ty, elts |-> [i \in 1..Ty.n |-> UndefValue(Ty.elt)]]
      [] Ty.id = "Struct" ->
            [ty |-> Ty, elts |-> [i \in 1..Len(Ty.flds) |-> UndefValue(Ty.flds[i])]]

RECURSIVE getNullValue(_)
getNullValue(Ty) ==
    CASE IsScalarTy(Ty) -> Scalar(Ty, Zeros(getTypeSizeInBits(Ty)))
      [] Ty.id \in {"Array", "Vector"} ->
            [ty |-> Ty, elts |-> [i \in 1..Ty.n |-> getNullValue(Ty.elt)]]
      [] Ty.id = "Struct" ->
            [ty |-> Ty, elts |-> [i \in 1..Len(Ty.flds) |-> getNullValue(Ty.flds[i])]]

ConstantArray(ATy, Vals) == [ty |-> ATy, elts |-> Vals]
ConstantVector(Vals) ==
    [ty |-> VectorType(Vals[1].ty, Len(Vals)), elts |-> Vals]
\* ConstantStruct::get(Context, Elts, Packed): the type is read off the elements
ConstantStruct(Vals, Packed) ==
    [ty |-> StructType([i \in 1..Len(Vals) |-> Vals[i].ty], Packed), elts |-> Vals]
\* ConstantStruct::get(STy, Vals)
ConstantStructOf(STy, Vals) == [ty |-> STy, elts |-> Vals]

\* CreateExtractValue / CreateExtractElement, folded
CreateExtractValue(C, i) == C.elts[i + 1]

(* The constant folder (TheFolder), on integers. *)

\* an integer constant that is undefined / zero (UndefValue / getNullValue
\* of an integer type)
UndefInt(Ty) == [ty |-> Ty, bits |-> Zeros(Ty.w), undef |-> TRUE]
NullInt(Ty) == Scalar(Ty, Zeros(Ty.w))

CreateZExtOrBitCast(C, ExtTy) ==
    IF C.ty = ExtTy THEN C
    ELSE IF ExtTy.w < C.ty.w THEN Poison
    ELSE IF C.undef THEN NullInt(ExtTy)
    ELSE Scalar(ExtTy, BitsZExt(C.bits, ExtTy.w))

CreateTruncOrBitCast(C, RedTy) ==
    IF C.ty = RedTy THEN C
    ELSE IF RedTy.w > C.ty.w THEN Poison
    ELSE IF C.undef THEN UndefInt(RedTy)
    ELSE Scalar(RedTy, BitsTrunc(C.bits, RedTy.w))

\* a shift amount held in a constant of the shifted type
ShiftAmount(delta, w) ==
    IF 0 <= delta /\ delta < w THEN delta
    ELSE IF w >= 31 THEN w
    ELSE delta % (2 ^ w)

CreateShl(C, delta) ==
    LET amt == ShiftAmount(delta, C.ty.w)
    IN  IF C.undef THEN NullInt(C.ty)
        ELSE IF amt >= C.ty.w THEN UndefInt(C.ty)
        ELSE Scalar(C.ty, BitsShl(C.bits, amt))

CreateLShr(C, delta) ==
    LET amt == ShiftAmount(delta, C.ty.w)
    IN  IF C.undef THEN NullInt(C.ty)
        ELSE IF amt >= C.ty.w THEN UndefInt(C.ty)
        ELSE Scalar(C.ty, BitsLShr(C.bits, amt))

CreateAnd(A, B) ==
    IF A.undef /\ B.undef THEN A
    ELSE IF A.undef \/ B.undef THEN NullInt(A.ty)
    ELSE Scalar(A.ty, BitsAnd(A.bits, B.bits))

CreateOr(A, B) ==
    IF A.undef /\ B.undef THEN A
    ELSE IF A.undef \/ B.undef THEN Scalar(A.ty, Ones(A.ty.w))
    ELSE Scalar(A.ty, BitsOr(A.bits, B.bits))

\* CreateBitCast / CreatePtrToInt / CreateIntToPtr between scalars of one width
CreateBitCast(C, Ty) == [ty |-> Ty, bits |-> C.bits, undef |-> C.undef]


-----------------------------------------------------------------------------
(* BitSlice: a contiguous range of bits held in memory. *)

contentsValid(r, contents) ==
    IF REmpty(r) THEN contents = Null
    ELSE /\ contents # Null
         /\ contents.ty.id = "Integer"
         /\ RWidth(r) = getPrimitiveSizeInBits(contents.ty)

\* BitSlice(r, contents)
BitSlice(r, contents) ==
    IF IsBad(contents) THEN contents
    ELSE IF ~contentsValid(r, contents) THEN AssertFailed
    ELSE [R |-> r, Contents |-> contents]

\* BitSlice()
EmptySlice == [R |-> EmptyRange, Contents |-> Null]

empty(S) == REmpty(S.R)

Displace(S, Offset) ==
    IF IsBad(S) THEN S ELSE BitSlice(RDisplace(S.R, Offset), S.Contents)

\* ExtendRange with the shift of the little-endian case on every target
ExtendRange_LittleEndianShift(S, r) ==
    IF IsBad(S) THEN S
    ELSE IF ~RContains(r, S.R) THEN AssertFailed
    ELSE IF REq(S.R, r) THEN S
    ELSE IF empty(S) THEN BitSlice(r, UndefInt(IntegerType(RWidth(r))))
    ELSE With(CreateZExtOrBitCast(S.Contents, IntegerType(RWidth(r))),
              LAMBDA C :
                  LET deltaFirst == S.R.First - r.First
                  IN  IF deltaFirst # 0
                      THEN BitSlice(r, CreateShl(C, deltaFirst))
                      ELSE BitSlice(r, C))

ExtendRange(S, r) ==
    IF IsBad(S) THEN S
    ELSE IF ~RContains(r, S.R) THEN AssertFailed
    ELSE IF REq(S.R, r) THEN S
    ELSE IF empty(S) THEN BitSlice(r, UndefInt(IntegerType(RWidth(r))))
    ELSE With(CreateZExtOrBitCast(S.Contents, IntegerType(RWidth(r))),
              LAMBDA C :
                  LET deltaFirst == S.R.First - r.First
                      deltaLast == r.Last - S.R.Last
                  IN  BitSlice(r, IF BYTES_BIG_ENDIAN /\ deltaLast # 0
                                  THEN CreateShl(C, deltaLast)
                                  ELSE IF ~BYTES_BIG_ENDIAN /\ deltaFirst # 0
                                  THEN CreateShl(C, deltaFirst)
                                  ELSE C))

\* ReduceRange that shifts and does not truncate
ReduceRange_Untruncated(S, r) ==
    IF IsBad(S) THEN S
    ELSE IF ~RContains(S.R, r) THEN AssertFailed
    ELSE IF REq(S.R, r) THEN S
    ELSE IF REmpty(r) THEN EmptySlice
    ELSE LET deltaFirst == r.First - S.R.First
             deltaLast == S.R.Last - r.Last
         IN  [R |-> r,
              Contents |-> IF BYTES_BIG_ENDIAN /\ deltaLast # 0
                           THEN CreateLShr(S.Contents, deltaLast)
                           ELSE IF ~BYTES_BIG_ENDIAN /\ deltaFirst # 0
                           THEN CreateLShr(S.Contents, deltaFirst)
                           ELSE S.Contents]

\* ReduceRange with the shifts of the two byte orders exchanged
ReduceRange_SwappedShifts(S, r) ==
    IF IsBad(S) THEN S
    ELSE IF ~RContains(S.R, r) THEN AssertFailed
    ELSE IF REq(S.R, r) THEN S
    ELSE IF REmpty(r) THEN EmptySlice
    ELSE LET deltaFirst == r.First - S.R.First
             deltaLast == S.R.Last - r.Last
         IN  BitSlice(r, CreateTruncOrBitCast(
                             IF ~BYTES_BIG_ENDIAN /\ deltaLast # 0
                             THEN CreateLShr(S.Contents, deltaLast)
                             ELSE IF BYTES_BIG_ENDIAN /\ deltaFirst # 0
                             THEN CreateLShr(S.Contents, deltaFirst)
                             ELSE S.Contents,
                             IntegerType(RWidth(r))))

ReduceRange(S, r) ==
    IF IsBad(S) THEN S
    ELSE IF ~RContains(S.R, r) THEN AssertFailed
    ELSE IF REq(S.R, r) THEN S
    ELSE IF REmpty(r) THEN EmptySlice
    ELSE LET deltaFirst == r.First - S.R.First
             deltaLast == S.R.Last - r.Last
         IN  BitSlice(r, CreateTruncOrBitCast(
                             IF BYTES_BIG_ENDIAN /\ deltaLast # 0
                             THEN CreateLShr(S.Contents, deltaLast)
                             ELSE IF ~BYTES_BIG_ENDIAN /\ deltaFirst # 0
                             THEN CreateLShr(S.Contents, deltaFirst)
                             ELSE S.Contents,
                             IntegerType(RWidth(r))))

\* getBits that gives the bits of the slice within r and no others
getBits_OfTheMeet(S, r) ==
    IF IsBad(S) THEN S
    ELSE IF REmpty(r) THEN AssertFailed
    ELSE IF REq(S.R, r) THEN S.Contents
    ELSE IF empty(S) \/ REmpty(RMeet(S.R, r))
    THEN UndefInt(IntegerType(RWidth(r)))
    ELSE Try(ReduceRange(S, RMeet(S.R, r)), LAMBDA Slice : Slice.Contents)

\* getBits returns a constant, not a slice
getBits(S, r) ==
    IF IsBad(S) THEN S
    ELSE IF REmpty(r) THEN AssertFailed
    ELSE IF REq(S.R, r) THEN S.Contents
    ELSE IF empty(S) THEN UndefInt(IntegerType(RWidth(r)))
    ELSE Try(ReduceRange(ExtendRange(S, RJoin(S.R, r)), r),
             LAMBDA Slice : Slice.Contents)

\* Merge with the masks of the little-endian case on every target
Merge_LittleEndianMasks(S, other) ==
    IF IsBad(S) THEN S
    ELSE IF IsBad(other) THEN other
    ELSE IF empty(other) THEN S
    ELSE IF empty(S) THEN other
    ELSE IF RIntersects(S.R, other.R) /\ ~NDEBUG THEN Fault
    ELSE With(RJoin(S.R, other.R), LAMBDA Hull :
         With(ExtendRange(S, Hull), LAMBDA ExtThis :
         With(ExtendRange(other, Hull), LAMBDA ExtOther :
                LET HullFirst == Hull.First
                    HullLast == Hull.Last
                    HullWidth == RWidth(Hull)
                    ThisBits ==
                       getBitsSet(HullWidth, S.R.First - HullFirst,
                                  S.R.Last - HullFirst)
                    OtherBits ==
                       getBitsSet(HullWidth, other.R.First - HullFirst,
                                  other.R.Last - HullFirst)
                    ClearThis == ConstantInt(HullWidth, BitsNot(ThisBits))
                    ClearOther == ConstantInt(HullWidth, BitsNot(OtherBits))
                IN  BitSlice(Hull,
                             CreateOr(CreateAnd(ExtThis.Contents, ClearOther),
                                      CreateAnd(ExtOther.Contents, ClearThis))))))

\* Merge taking the other slice's part from this slice
Merge_OtherPartFromThis(S, other) ==
    IF IsBad(S) THEN S
    ELSE IF IsBad(other) THEN other
    ELSE IF empty(other) THEN S
    ELSE IF empty(S) THEN other
    ELSE IF RIntersects(S.R, other.R) /\ ~NDEBUG THEN Fault
    ELSE With(RJoin(S.R, other.R), LAMBDA Hull :
         With(ExtendRange(S, Hull), LAMBDA ExtThis :
         With(ExtendRange(other, Hull), LAMBDA ExtOther :
                LET HullFirst == Hull.First
                    HullLast == Hull.Last
                    HullWidth == RWidth(Hull)
                    ThisBits ==
                       IF BYTES_BIG_ENDIAN
                       THEN getBitsSet(HullWidth, HullLast - S.R.Last,
                                       HullLast - S.R.First)
                       ELSE getBitsSet(HullWidth, S.R.First - HullFirst,
                                       S.R.Last - HullFirst)
                    OtherBits ==
                       IF BYTES_BIG_ENDIAN
                       THEN getBitsSet(HullWidth, HullLast - other.R.Last,
                                       HullLast - other.R.First)
                       ELSE getBitsSet(HullWidth, other.R.First - HullFirst,
                                       other.R.Last - HullFirst)
                    ClearThis == ConstantInt(HullWidth, BitsNot(ThisBits))
                    ClearOther == ConstantInt(HullWidth, BitsNot(OtherBits))
                IN  BitSlice(Hull,
                             CreateOr(CreateAnd(ExtThis.Contents, ClearOther),
                                      CreateAnd(ExtThis.Contents, ClearThis))))))

\* S.Merge(other): the new value of S
Merge(S, other) ==
    IF IsBad(S) THEN S
    ELSE IF IsBad(other) THEN other
    ELSE IF empty(other) THEN S
    ELSE IF empty(S) THEN other
    ELSE IF RIntersects(S.R, other.R) /\ ~NDEBUG THEN Fault
    ELSE With(RJoin(S.R, other.R), LAMBDA Hull :
         With(ExtendRange(S, Hull), LAMBDA ExtThis :
         With(ExtendRange(other, Hull), LAMBDA ExtOther :
                LET HullFirst == Hull.First
                    HullLast == Hull.Last
                    HullWidth == RWidth(Hull)
                    ThisBits ==
                       IF BYTES_BIG_ENDIAN
                       THEN getBitsSet(HullWidth, HullLast - S.R.Last,
                                       HullLast - S.R.First)
                       ELSE getBitsSet(HullWidth, S.R.First - HullFirst,
                                       S.R.Last - HullFirst)
                    OtherBits ==
                       IF BYTES_BIG_ENDIAN
                       THEN getBitsSet(HullWidth, HullLast - other.R.Last,
                                       HullLast - other.R.First)
                       ELSE getBitsSet(HullWidth, other.R.First - HullFirst,
                                       other.R.Last - HullFirst)
                    ClearThis == ConstantInt(HullWidth, BitsNot(ThisBits))
                    ClearOther == ConstantInt(HullWidth, BitsNot(OtherBits))
                IN  BitSlice(Hull,
                             CreateOr(CreateAnd(ExtThis.Contents, ClearOther),
                                      CreateAnd(ExtOther.Contents, ClearThis))))))


-----------------------------------------------------------------------------
(* ViewAsBits and InterpretAsType. *)

\* the first bad outcome among the values of a sequence, or Null
RECURSIVE FirstBad(_, _)
FirstBad(Vals, i) ==
    IF i > Len(Vals) THEN Null
    ELSE IF IsBad(Vals[i]) THEN Vals[i]
    ELSE FirstBad(Vals, i + 1)

\* the values, or the first bad outcome among them
AllGood(Vals, Body(_)) ==
    With(FirstBad(Vals, 1), LAMBDA bad : IF bad # Null THEN bad ELSE Body(Vals))

RECURSIVE ViewAsBits(_, _)
RECURSIVE ViewElements(_, _, _, _, _)
RECURSIVE ViewElements_Undisplaced(_, _, _, _, _)
RECURSIVE ViewFields(_, _, _, _)

\* the loop over the elements with no element displaced to its place
ViewElements_Undisplaced(C, i, LastElt, Stride, Bits) ==
    IF i >= LastElt THEN Bits
    ELSE ViewElements_Undisplaced(C, i + 1, LastElt, Stride,
                                  Merge(Bits,
                                        ViewAsBits(CreateExtractValue(C, i),
                                                   Range(0, Stride))))

\* the loop over the elements i..LastElt-1 of an array or a vector
ViewElements(C, i, LastElt, Stride, Bits) ==
    IF i >= LastElt THEN Bits
    ELSE ViewElements(C, i + 1, LastElt, Stride,
                      Merge(Bits,
                            Displace(ViewAsBits(CreateExtractValue(C, i),
                                                Range(0, Stride)),
                                     i * Stride)))

\* the loop over the fields i..LastIdx-1 of a struct
ViewFields(C, i, LastIdx, Bits) ==
    IF i >= LastIdx THEN Bits
    ELSE With(CreateExtractValue(C, i),
              LAMBDA Field :
                  ViewFields(C, i + 1, LastIdx,
                             Merge(Bits,
                                   Displace(ViewAsBits(Field,
                                                Range(0, getTypeStoreSizeInBits(Field.ty))),
                                            getElementOffset(C.ty, i) * 8))))

\* the test with no constant taken to have the wanted type
SameType_Never(C, Ty) == FALSE

\* the bits of C in the non-empty range R, StoreSize being the store size
\* of its type
ViewByType(C, R, StoreSize) ==
    CASE C.ty.id = "Pointer" ->
            BitSlice(Range(0, StoreSize), CreateBitCast(C, getIntPtrType))
      [] C.ty.id \in {"Float", "Integer"} ->
            LET BitWidth == getPrimitiveSizeInBits(C.ty)
            IN  BitSlice(IF BYTES_BIG_ENDIAN
                         THEN Range(StoreSize - BitWidth, StoreSize)
                         ELSE Range(0, BitWidth),
                         CreateBitCast(C, IntegerType(BitWidth)))
      [] C.ty.id \in {"Array", "Vector"} ->
            With(getTypeAllocSizeInBits(C.ty.elt),
                 LAMBDA Stride :
                     LET FirstElt == R.First \div Stride
                         LastElt == (R.Last + Stride - 1) \div Stride
                     IN  IF Stride <= 0 \/ LastElt > C.ty.n THEN AssertFailed
                         ELSE ViewElements(C, FirstElt, LastElt, Stride,
                                           EmptySlice))
      [] C.ty.id = "Struct" ->
            ViewFields(C,
                       getElementContainingOffset(C.ty, (R.First + 7) \div 8),
                       1 + getElementContainingOffset(C.ty, (R.Last + 6) \div 8),
                       EmptySlice)
      [] OTHER -> Fault

ViewAsBits(C, Rng) ==
    IF IsBad(C) THEN C
    ELSE IF REmpty(Rng) THEN EmptySlice
    ELSE With(getTypeStoreSizeInBits(C.ty),
              LAMBDA StoreSize :
                  With(RMeet(Rng, Range(0, StoreSize)),
                       LAMBDA R :
                           IF REmpty(R) THEN EmptySlice
                           ELSE ViewByType(C, R, StoreSize)))

\* the test for the constant having the wanted type already
SameType(C, Ty) == C.ty = Ty

RECURSIVE InterpretAsType(_, _, _)
InterpretAsType(C, Ty, StartingBit) ==
    IF IsBad(C) THEN C
    ELSE IF SameType(C, Ty) THEN C
    ELSE CASE Ty.id = "Integer" ->
                With(getTypeStoreSizeInBits(Ty),
                     LAMBDA StoreSize :
                         getBits(Displace(ViewAsBits(C, Range(StartingBit,
                                                              StartingBit + StoreSize)),
                                          0 - StartingBit),
                                 IF BYTES_BIG_ENDIAN
                                 THEN Range(StoreSize - getPrimitiveSizeInBits(Ty),
                                            StoreSize)
                                 ELSE Range(0, getPrimitiveSizeInBits(Ty))))
           [] Ty.id \in {"Pointer", "Float"} ->
                Try(InterpretAsType(C,
                                    IF Ty.id = "Pointer" THEN getIntPtrType
                                    ELSE IntegerType(getPrimitiveSizeInBits(Ty)),
                                    StartingBit),
                    LAMBDA CI : CreateBitCast(CI, Ty))
           [] Ty.id \in {"Array", "Vector"} ->
                With(getTypeAllocSizeInBits(Ty.elt),
                     LAMBDA Stride :
                         AllGood([i \in 1..Ty.n |->
                                     InterpretAsType(C, Ty.elt,
                                                     StartingBit + (i - 1) * Stride)],
                                 LAMBDA Vals :
                                     IF Ty.id = "Array" THEN ConstantArray(Ty, Vals)
                                     ELSE ConstantVector(Vals)))
           [] Ty.id = "Struct" ->
                With(StructLayout(Ty),
                     LAMBDA offs :
                         AllGood([i \in 1..Len(Ty.flds) |->
                                     InterpretAsType(C, Ty.flds[i],
                                                     StartingBit + 8 * offs[i])],
                                 LAMBDA Vals : ConstantStructOf(Ty, Vals)))
           [] OTHER -> Fault


-----------------------------------------------------------------------------
(* The memory image of a constant: what storing it to memory leaves at     *)
(* each bit position.  U stands for a bit that holds nothing defined       *)
(* (padding, or an undefined value).  On a little-endian target bit 0 of   *)
(* a stored integer is its least significant bit, on a big-endian target   *)
(* its most significant one.                                               *)

U == 0 - 1

\* the field of a struct type that holds bit p, or 0 when p lies in padding
FieldAt(STy, p) ==
    LET S == {i \in 1..Len(STy.flds) :
                 /\ getElementOffsetInBits(STy, i - 1) <= p
                 /\ p < getElementOffsetInBits(STy, i - 1)
                          + getTypeAllocSizeInBits(STy.flds[i])}
    IN  IF S = {} THEN 0 ELSE CHOOSE i \in S : TRUE

RECURSIVE ImageBit(_, _)
ImageBit(C, p) ==
    LET Ty == C.ty
    IN  IF p < 0 THEN U
        ELSE IF IsScalarTy(Ty) THEN
            LET w == getTypeSizeInBits(Ty)
                S == getTypeStoreSizeInBits(Ty)
            IN  IF C.undef THEN U
                ELSE IF BYTES_BIG_ENDIAN
                THEN (IF S - w <= p /\ p < S THEN C.bits[S - p] ELSE U)
                ELSE (IF p < w THEN C.bits[p + 1] ELSE U)
        ELSE IF Ty.id \in {"Array", "Vector"} THEN
            LET Stride == getTypeAllocSizeInBits(Ty.elt)
                i == p \div Stride
            IN  IF i < Ty.n THEN ImageBit(C.elts[i + 1], p - i * Stride) ELSE U
        ELSE IF Ty.id = "Struct" THEN
            LET i == FieldAt(Ty, p)
            IN  IF i = 0 THEN U
                ELSE ImageBit(C.elts[i], p - getElementOffsetInBits(Ty, i - 1))
        ELSE U

\* whether bit p of a stored value of type Ty is a bit of the value
ValueBit(Ty, p) == ImageBit(getNullValue(Ty), p) # U

\* R is what loading a Ty from bit StartingBit of C's image gives, wherever
\* that image is defined
LoadedFrom(R, Ty, C, StartingBit) ==
    /\ ~IsBad(R)
    /\ R.ty = Ty
    /\ \A p \in 0..(getTypeAllocSizeInBits(Ty) - 1) :
          (ValueBit(Ty, p) /\ ImageBit(C, StartingBit + p) # U)
             => ImageBit(R, p) = ImageBit(C, StartingBit + p)

-----------------------------------------------------------------------------
(* The constants and types drawn as inputs. *)

PatternBit(j, i) == IF (i % (j + 1)) * 2 < j + 1 THEN 1 ELSE 0
Pattern(j, w) == [i \in 1..w |-> PatternBit(j, i)]
Patterns == 0..(NumPatterns - 1)

I4 == IntegerType(4)
I8 == IntegerType(8)
I12 == IntegerType(12)
I16 == IntegerType(16)
I32 == IntegerType(32)
A2xI8 == ArrayType(I8, 2)
V2xI8 == VectorType(I8, 2)
S_I8_I8 == StructType(<<I8, I8>>, FALSE)
S_I8_I16 == StructType(<<I8, I16>>, FALSE)
P_I8_I16 == StructType(<<I8, I16>>, TRUE)

ScalarTypes == {I4, I8, I12, I16, I32, FloatTy, PointerTy}
SampleTypes == ScalarTypes \cup {A2xI8, V2xI8, S_I8_I8, S_I8_I16, P_I8_I16}

\* constants of a type: every leaf holds a pattern (shifted from leaf to
\* leaf so that the leaves differ) or is undefined
RECURSIVE Sample(_, _)
Sample(Ty, j) ==
    CASE IsScalarTy(Ty) -> Scalar(Ty, Pattern(j, getTypeSizeInBits(Ty)))
      [] Ty.id \in {"Array", "Vector"} ->
            [ty |-> Ty, elts |-> [i \in 1..Ty.n |-> Sample(Ty.elt, j + i - 1)]]
      [] Ty.id = "Struct" ->
            [ty |-> Ty,
             elts |-> [i \in 1..Len(Ty.flds) |-> Sample(Ty.flds[i], j + i - 1)]]

\* the 32-bit constant 0x01020304
C01020304 == ConstantInt(32, NatToBits(16909060, 32))

SampleConstants ==
    {Sample(Ty, j) : Ty \in SampleTypes, j \in Patterns}
      \cup {UndefValue(Ty) : Ty \in {I8, I16, A2xI8}}
      \cup {C01020304}
      \cup {ConstantStructOf(STy, <<UndefValue(I8), Sample(I16, 1)>>) :
               STy \in {S_I8_I16, P_I8_I16}}

StartingBits == {4 * k : k \in (0 - 2)..MaxStartNibble}

-----------------------------------------------------------------------------
(* InterpretAsType applied to a constant, and applied back again. *)

InitInterp ==
    /\ BYTES_BIG_ENDIAN \in BOOLEAN
    /\ NDEBUG \in BOOLEAN
    /\ flag_default_initialize_globals = TRUE
    /\ isBigEndianHost = FALSE
    /\ pc = "start"
    /\ input \in [C : SampleConstants, Ty : SampleTypes, StartingBit : StartingBits]
    /\ acc = Null
    /\ call = Null

\* InterpretAsType(C, Ty, StartingBit)
Interpret ==
    /\ pc = "start"
    /\ acc' = InterpretAsType(input.C, input.Ty, input.StartingBit)
    /\ call' = [op |-> "InterpretAsType", C |-> input.C, Ty |-> input.Ty,
                StartingBit |-> input.StartingBit]
    /\ pc' = "interpreted"
    /\ UNCHANGED <<target, input>>

\* InterpretAsType(InterpretAsType(C, Ty, 0), type of C, 0)
InterpretBack ==
    /\ pc = "interpreted"
    /\ call.StartingBit = 0
    /\ ~IsBad(acc)
    /\ acc' = InterpretAsType(acc, input.C.ty, 0)
    /\ call' = [op |-> "InterpretAsType", C |-> acc, Ty |-> input.C.ty,
                StartingBit |-> 0]
    /\ pc' = "back"
    /\ UNCHANGED <<target, input>>

NextInterp == Interpret \/ InterpretBack

SpecInterp == InitInterp /\ [][NextInterp]_vars


-----------------------------------------------------------------------------
(* Claims about InterpretAsType. *)

\* C3 as stated: for every constant C, supported type Ty and StartingBit (zero or
\* not, C's type equal to Ty or not), InterpretAsType(C, Ty, StartingBit)
\* is what loading a Ty from bit StartingBit of C's memory image gives;
\* bits outside the image are unconstrained.
C3_InterpretAsTypeIsALoad ==
    pc = "interpreted"
        => LoadedFrom(acc, input.Ty, input.C, input.StartingBit)

\* C4: InterpretAsType(v, T, 0) is v itself when T is the type of v.
C4_InterpretOwnTypeIsIdentity ==
    (pc = "interpreted" /\ input.Ty = input.C.ty /\ input.StartingBit = 0)
        => acc = input.C

C4_Witness ==
    /\ pc = "interpreted"
    /\ input.Ty = input.C.ty
    /\ input.StartingBit = 0
    /\ input.C = ConstantStructOf(P_I8_I16, <<UndefValue(I8), Sample(I16, 1)>>)
    /\ acc = input.C

\* the number of bits of a stored Ty that are bits of the value
DefinedBits(Ty) ==
    Cardinality({p \in 0..(getTypeAllocSizeInBits(Ty) - 1) : ValueBit(Ty, p)})

\* every defined bit of v is a bit of R with the same value, and R has v's type
SameDefinedBits(R, v) == LoadedFrom(R, v.ty, v, 0)

\* every position that holds a value bit of a stored A holds a value bit of
\* a stored B
Covers(B, A) ==
    \A p \in 0..(getTypeAllocSizeInBits(A) - 1) :
        ValueBit(A, p) => ValueBit(B, p)

\* C5 as stated, for the types B that hold a value bit wherever A does (so
\* that B is wide enough whatever is meant by its width): converting v of
\* type A to B and back gives the defined bits of v, on both byte orders,
\* integers of a width that is no multiple of 8 included.
C5_RoundTripWhenWideEnough ==
    (pc = "back"
       /\ getTypeStoreSizeInBits(input.Ty) >= DefinedBits(input.C.ty)
       /\ Covers(input.Ty, input.C.ty))
        => SameDefinedBits(acc, input.C)

\* C9: an integer constant v of width W (a multiple of 8) read as an integer
\* of byte-multiple width w at bit offset k, k + w <= W, is (v >> k) mod 2^w
\* on a little-endian target and (v >> (W - k - w)) mod 2^w on a big-endian
\* one; 0x01020304 read as 16-bit integers at offsets 0 and 16 gives 0x0304
\* and 0x0102 (little-endian), 0x0102 and 0x0304 (big-endian).
C9_Shift ==
    IF BYTES_BIG_ENDIAN
    THEN input.C.ty.w - input.StartingBit - input.Ty.w
    ELSE input.StartingBit

C9_Case ==
    /\ pc = "interpreted"
    /\ input.C.ty.id = "Integer"
    /\ ~input.C.undef
    /\ input.Ty.id = "Integer"
    /\ input.C.ty.w % 8 = 0
    /\ input.Ty.w % 8 = 0
    /\ input.StartingBit >= 0
    /\ input.StartingBit + input.Ty.w <= input.C.ty.w

C9_IntegerAtOffset ==
    /\ C9_Case =>
          /\ ~IsBad(acc)
          /\ acc.ty = input.Ty
          /\ ~acc.undef
          /\ \A i \in 1..input.Ty.w : acc.bits[i] = input.C.bits[i + C9_Shift]
          /\ input.C.ty.w <= 16 =>
                BitsToNat(acc.bits)
                  = (BitsToNat(input.C.bits) \div (2 ^ C9_Shift)) % (2 ^ input.Ty.w)
    /\ (C9_Case /\ input.C = C01020304 /\ input.Ty = I16) =>
          /\ input.StartingBit = 0 =>
                BitsToNat(acc.bits) = IF BYTES_BIG_ENDIAN THEN 258 ELSE 772
          /\ input.StartingBit = 16 =>
                BitsToNat(acc.bits) = IF BYTES_BIG_ENDIAN THEN 772 ELSE 258

C9_Witness ==
    /\ C9_Case
    /\ ~BYTES_BIG_ENDIAN
    /\ input.C = C01020304
    /\ input.Ty = I16
    /\ input.StartingBit = 16
    /\ BitsToNat(acc.bits) = 258


-----------------------------------------------------------------------------
(* The bit slices drawn as inputs. *)

SliceRanges ==
    {Range(f, f + w) : f \in (0 - 1)..(MaxSliceBit - 1), w \in 1..MaxSliceWidth}

SliceContents(w) ==
    {ConstantInt(w, Ones(w)), ConstantInt(w, Pattern(1, w)),
     ConstantInt(w, Pattern(2, w)), UndefValue(IntegerType(w))}

SampleSlices ==
    {EmptySlice}
      \cup {[R |-> r, Contents |-> c] : r \in SliceRanges, c \in SliceContents(MaxSliceWidth)}
      \cup UNION {{[R |-> r, Contents |-> c] : c \in SliceContents(RWidth(r))} :
                    r \in SliceRanges}

\* the ranges handed to ExtendRange and ReduceRange
ArgRanges ==
    {Range(f, l) : f \in (0 - 2)..MaxSliceBit, l \in (0 - 2)..(MaxSliceBit + MaxSliceWidth)}

\* bit p of a slice, by the convention of the BitSlice constructor: the
\* least significant bit of the contents is the first bit of the range on a
\* little-endian target and the last one on a big-endian target
SliceBit(S, p) ==
    IF S.Contents.undef THEN U
    ELSE IF BYTES_BIG_ENDIAN THEN S.Contents.bits[S.R.Last - p]
    ELSE S.Contents.bits[p - S.R.First + 1]

\* every defined bit of slice A is a bit of slice S with the same value
HoldsBitsOf(S, A) ==
    \A p \in A.R.First..(A.R.Last - 1) :
        SliceBit(A, p) # U => SliceBit(S, p) = SliceBit(A, p)

-----------------------------------------------------------------------------
(* BitSlice(r1, v).ExtendRange(r2).ReduceRange(r1) *)

InitExtRed ==
    /\ BYTES_BIG_ENDIAN \in BOOLEAN
    /\ NDEBUG \in BOOLEAN
    /\ flag_default_initialize_globals = TRUE
    /\ isBigEndianHost = FALSE
    /\ pc = "start"
    /\ input \in [S : {x \in SampleSlices : contentsValid(x.R, x.Contents)},
                  r : ArgRanges]
    /\ acc = Null
    /\ call = Null

\* BitSlice(r1, v)
Construct ==
    /\ pc = "start"
    /\ acc' = BitSlice(input.S.R, input.S.Contents)
    /\ call' = [op |-> "BitSlice"]
    /\ pc' = "constructed"
    /\ UNCHANGED <<target, input>>

\* .ExtendRange(r2)
Extend ==
    /\ pc = "constructed"
    /\ acc' = ExtendRange(acc, input.r)
    /\ call' = [op |-> "ExtendRange", r |-> input.r, this |-> acc]
    /\ pc' = IF IsFault(acc') THEN "fault" ELSE "extended"
    /\ UNCHANGED <<target, input>>

\* .ReduceRange(r1)
Reduce ==
    /\ pc = "extended"
    /\ acc' = ReduceRange(acc, input.S.R)
    /\ call' = [op |-> "ReduceRange", r |-> input.S.R, this |-> acc]
    /\ pc' = IF IsFault(acc') THEN "fault" ELSE "reduced"
    /\ UNCHANGED <<target, input>>

NextExtRed == Construct \/ Extend \/ Reduce

SpecExtRed == InitExtRed /\ [][NextExtRed]_vars

\* C6: for r1 contained in r2 and v of width |r1|,
\* BitSlice(r1, v).ExtendRange(r2).ReduceRange(r1) is a slice with range r1
\* whose bits equal v exactly, on both byte orders.
C6_ExtendThenReduce ==
    (pc \in {"reduced", "fault"}
       /\ ~empty(input.S)
       /\ RContains(input.r, input.S.R)
       /\ ~IsUndef(input.S.Contents))
        => /\ pc = "reduced"
           /\ ~IsBad(acc)
           /\ REq(acc.R, input.S.R)
           /\ acc.Contents = input.S.Contents

C6_Witness ==
    /\ pc = "reduced"
    /\ BYTES_BIG_ENDIAN
    /\ input.S.R = Range(0, 2)
    /\ input.r = Range(0 - 1, 4)
    /\ input.S.Contents = ConstantInt(2, Pattern(1, 2))
    /\ acc = input.S
    /\ call.this.Contents = ConstantInt(5, <<0, 0, 0, 1, 0>>)

-----------------------------------------------------------------------------
(* Merging two slices, and a third one, in either pairing. *)

Disjoint(x, y) == ~RIntersects(x.R, y.R)

MergeInputs ==
    {x \in [a : SampleSlices, b : SampleSlices, c : SampleSlices] :
        /\ contentsValid(x.a.R, x.a.Contents)
        /\ contentsValid(x.b.R, x.b.Contents)
        /\ contentsValid(x.c.R, x.c.Contents)
        /\ Disjoint(x.a, x.c)
        /\ Disjoint(x.b, x.c)}

InitMerge ==
    /\ BYTES_BIG_ENDIAN \in BOOLEAN
    /\ NDEBUG \in BOOLEAN
    /\ flag_default_initialize_globals = TRUE
    /\ isBigEndianHost = FALSE
    /\ pc = "start"
    /\ input \in MergeInputs
    /\ acc = Null
    /\ call = Null

MergeStep(this, other, to) ==
    /\ acc' = Merge(this, other)
    /\ call' = [op |-> "Merge", step |-> to, this |-> this, other |-> other]
    /\ pc' = IF IsFault(acc') THEN "fault" ELSE to
    /\ UNCHANGED <<target, input>>

\* a.Merge(b)
MergeAB == pc = "start" /\ MergeStep(input.a, input.b, "ab")
\* then a.Merge(c)
MergeABthenC == pc = "ab" /\ MergeStep(acc, input.c, "ab_c")
\* b.Merge(c)
MergeBC == pc = "start" /\ MergeStep(input.b, input.c, "bc")
\* then a.Merge(b)
MergeAthenBC == pc = "bc" /\ MergeStep(input.a, acc, "a_bc")

NextMerge == MergeAB \/ MergeABthenC \/ MergeBC \/ MergeAthenBC

SpecMerge == InitMerge /\ [][NextMerge]_vars

\* C7: for disjoint non-empty a and b, after a.Merge(b) the range is the
\* convex hull of the two ranges and every bit of a's range holds a's bit,
\* every bit of b's range holds b's bit (both byte orders); when either
\* operand is empty the result is the other operand unchanged.
C7_MergeOfTwo ==
    (call # Null /\ call.step = "ab" /\ Disjoint(input.a, input.b))
        => /\ pc = "ab"
           /\ empty(input.b) => acc = input.a
           /\ empty(input.a) => acc = input.b
           /\ (~empty(input.a) /\ ~empty(input.b)) =>
                 /\ ~IsBad(acc)
                 /\ acc.R = RJoin(input.a.R, input.b.R)
                 /\ contentsValid(acc.R, acc.Contents)
                 /\ ~acc.Contents.undef
                 /\ HoldsBitsOf(acc, input.a)
                 /\ HoldsBitsOf(acc, input.b)

C7_Witness ==
    /\ pc = "ab"
    /\ BYTES_BIG_ENDIAN
    /\ input.a = [R |-> Range(2, 4), Contents |-> ConstantInt(2, Pattern(1, 2))]
    /\ input.b = [R |-> Range(0 - 1, 1), Contents |-> ConstantInt(2, Pattern(2, 2))]
    /\ acc = [R |-> Range(0 - 1, 4), Contents |-> ConstantInt(5, <<0, 1, 0, 1, 0>>)]

\* the result of merging a, b and c, whatever the pairing
MergedThree(S) ==
    /\ ~IsBad(S)
    /\ REq(S.R, RJoin(input.a.R, RJoin(input.b.R, input.c.R)))
    /\ contentsValid(S.R, S.Contents)
    /\ (~empty(S)) =>
          /\ HoldsBitsOf(S, input.a)
          /\ HoldsBitsOf(S, input.b)
          /\ HoldsBitsOf(S, input.c)

PairwiseDisjoint ==
    Disjoint(input.a, input.b) /\ Disjoint(input.a, input.c)
        /\ Disjoint(input.b, input.c)

\* whether the last call was the second merge of a pairing
SecondMerge == call # Null /\ call.step \in {"ab_c", "a_bc"}

\* C8 as stated: merging three pairwise disjoint slices gives the same
\* range and the same bits within the three ranges whatever the pairing:
\* (a.Merge(b)).Merge(c) and a.Merge(b.Merge(c)), for every order of the
\* operands.
C8_MergeAnyPairing ==
    (PairwiseDisjoint /\ SecondMerge) => (pc # "fault" /\ MergedThree(acc))

\* C8 amended: the same, provided that the slice merged second does not
\* intersect the range of the slice it is merged with, which after the
\* first merge is the convex hull of the first two operands.
C8_MergeDisjointPairing ==
    (PairwiseDisjoint /\ SecondMerge /\ Disjoint(call.this, call.other))
        => (pc # "fault" /\ MergedThree(acc))

C8_Witness ==
    /\ pc = "ab_c"
    /\ PairwiseDisjoint
    /\ ~empty(input.a) /\ ~empty(input.b) /\ ~empty(input.c)
    /\ input.c.R.Last <= input.b.R.First
    /\ input.b.R.Last < input.a.R.First
    /\ BYTES_BIG_ENDIAN
    /\ MergedThree(acc)


-----------------------------------------------------------------------------
(* GCC trees: types, declarations and the expressions of an initial value. *)

\* a size or length that is no compile-time constant (NULL_TREE, ~0ULL)
NoSize == 0 - 1

INTEGER_TYPE(prec, size, align, uns) ==
    [code |-> "INTEGER_TYPE", prec |-> prec, size |-> size, align |-> align,
     unsigned |-> uns]
POINTER_TYPE ==
    [code |-> "POINTER_TYPE", size |-> PointerSizeInBits,
     align |-> PointerSizeInBits, unsigned |-> TRUE]
\* an array whose domain starts at min and holds len elements (NoSize: no
\* upper bound)
ARRAY_TYPE(elt, min, len, align) ==
    [code |-> "ARRAY_TYPE", type |-> elt, min |-> min, len |-> len,
     size |-> IF len = NoSize THEN NoSize ELSE len * elt.size, align |-> align]
VECTOR_TYPE(elt, len, align) ==
    [code |-> "VECTOR_TYPE", type |-> elt, len |-> len, size |-> len * elt.size,
     align |-> align]
\* a FIELD_DECL: its type, DECL_FIELD_OFFSET/BIT_OFFSET in bits and DECL_SIZE
FIELD_DECL(type, offset, size) ==
    [code |-> "FIELD_DECL", type |-> type, offset |-> offset, size |-> size]
\* a record with its fields and the LLVM memory type made for it
RECORD_TYPE(fields, size, align, llvm) ==
    [code |-> "RECORD_TYPE", fields |-> fields, size |-> size, align |-> align,
     llvm |-> llvm]

\* a union: every field at offset 0
UNION_TYPE(fields, size, align, llvm) ==
    [code |-> "UNION_TYPE", fields |-> fields, size |-> size, align |-> align,
     llvm |-> llvm]

TREE_CODE(t) == t.code
TREE_TYPE(exp) == exp.type
TYPE_ALIGN(type) == type.align
TYPE_SIZE(type) == type.size
TYPE_UNSIGNED(type) == type.unsigned
TYPE_FIELDS(type) == type.fields
AGGREGATE_TYPE_P(type) ==
    TREE_CODE(type) \in {"ARRAY_TYPE", "RECORD_TYPE", "UNION_TYPE", "QUAL_UNION_TYPE"}
ArrayLengthOf(type) == type.len
TYPE_VECTOR_SUBPARTS(type) == type.len
\* whether t is an INTEGER_CST that fits 64 bits: a size GCC knows
isInt64(t) == t # NoSize /\ t \in Nat
\* the same, asked of a tree that is a type
isInt64OfType(type) == TREE_CODE(type) = "INTEGER_CST"
DECL_SIZE(field) == field.size
getFieldOffsetInBits(field) == field.offset
OffsetIsLLVMCompatible(field) == field.offset # NoSize

\* the LLVM memory type of a GCC type
RECURSIVE ConvertType(_)
ConvertType(type) ==
    CASE TREE_CODE(type) = "INTEGER_TYPE" -> IntegerType(type.prec)
      [] TREE_CODE(type) = "POINTER_TYPE" -> PointerTy
      [] TREE_CODE(type) = "ARRAY_TYPE" ->
            ArrayType(ConvertType(TREE_TYPE(type)),
                      IF type.len = NoSize THEN 0 ELSE type.len)
      [] TREE_CODE(type) = "VECTOR_TYPE" ->
            VectorType(ConvertType(TREE_TYPE(type)), type.len)
      [] TREE_CODE(type) \in {"RECORD_TYPE", "UNION_TYPE"} -> type.llvm

\* the value of a variable or field given no initial value
getDefaultValue(Ty) ==
    IF flag_default_initialize_globals THEN getNullValue(Ty) ELSE UndefValue(Ty)

\* expressions
INTEGER_CST(type, bits) == [code |-> "INTEGER_CST", type |-> type, bits |-> bits]
\* a string constant: its bytes as held by GCC, in target order
STRING_CST(type, str) == [code |-> "STRING_CST", type |-> type, str |-> str]
\* a constructor: a sequence of (index, value) with index Null, the
\* number of a FIELD_DECL, the INTEGER_CST of an element or a RANGE_EXPR
CONSTRUCTOR(type, elts) == [code |-> "CONSTRUCTOR", type |-> type, elts |-> elts]
CONSTRUCTOR_ELT(index, value) == [index |-> index, value |-> value]
INDEX(low) == [code |-> "INTEGER_CST", low |-> low]
FIELD(n) == [code |-> "FIELD_DECL", n |-> n]
RANGE_EXPR(first, last) == [code |-> "RANGE_EXPR", first |-> first, last |-> last]
NOP_EXPR(type, op) == [code |-> "NOP_EXPR", type |-> type, op |-> op]
VIEW_CONVERT_EXPR(type, op) == [code |-> "VIEW_CONVERT_EXPR", type |-> type, op |-> op]
ADDR_EXPR(type, op) == [code |-> "ADDR_EXPR", type |-> type, op |-> op]
PLUS_EXPR(type, op0, op1) ==
    [code |-> "PLUS_EXPR", type |-> type, op0 |-> op0, op1 |-> op1]
MINUS_EXPR(type, op0, op1) ==
    [code |-> "MINUS_EXPR", type |-> type, op0 |-> op0, op1 |-> op1]
POINTER_PLUS_EXPR(type, op0, op1) ==
    [code |-> "POINTER_PLUS_EXPR", type |-> type, op0 |-> op0, op1 |-> op1]
\* a global variable, with the address the link gives it
VAR_DECL(type, addr) == [code |-> "VAR_DECL", type |-> type, addr |-> addr]

-----------------------------------------------------------------------------
(* The constant folder (TheFolder), on casts and sums. *)

BitsSExt(b, w) == [i \in 1..w |-> IF i <= Len(b) THEN b[i] ELSE b[Len(b)]]

RECURSIVE BitsAddFrom(_, _, _, _)
BitsAddFrom(a, b, i, carry) ==
    IF i > Len(a) THEN <<>>
    ELSE LET sum == a[i] + b[i] + carry
         IN  <<sum % 2>> \o BitsAddFrom(a, b, i + 1, sum \div 2)

BitsAdd(a, b) == BitsAddFrom(a, b, 1, 0)
\* a - b = a + ~b + 1
BitsSub(a, b) == BitsAddFrom(a, BitsNot(b), 1, 1)

\* CreateCast(getCastOpcode(C, SrcIsSigned, DestTy, DestIsSigned), C, DestTy)
\* between integers and pointers
CreateCast(C, SrcIsSigned, DestTy) ==
    IF ~IsScalarTy(C.ty) \/ ~IsScalarTy(DestTy) THEN Fault
    ELSE With(getTypeSizeInBits(C.ty), LAMBDA SrcBits :
         With(getTypeSizeInBits(DestTy), LAMBDA DestBits :
              IF DestBits < SrcBits
              THEN [ty |-> DestTy, bits |-> BitsTrunc(C.bits, DestBits),
                    undef |-> C.undef]
              ELSE IF DestBits = SrcBits
              THEN CreateBitCast(C, DestTy)
              ELSE IF C.undef THEN Scalar(DestTy, Zeros(DestBits))
              ELSE IF SrcIsSigned /\ C.ty.id = "Integer"
              THEN Scalar(DestTy, BitsSExt(C.bits, DestBits))
              ELSE Scalar(DestTy, BitsZExt(C.bits, DestBits))))

\* UndefValue of the type of a scalar
UndefLike(C) == [ty |-> C.ty, bits |-> Zeros(Len(C.bits)), undef |-> TRUE]

CreateAdd(LHS, RHS) ==
    IF LHS.undef \/ RHS.undef THEN UndefLike(LHS)
    ELSE Scalar(LHS.ty, BitsAdd(LHS.bits, RHS.bits))

CreateSub(LHS, RHS) ==
    IF LHS.undef \/ RHS.undef THEN UndefLike(LHS)
    ELSE Scalar(LHS.ty, BitsSub(LHS.bits, RHS.bits))

-----------------------------------------------------------------------------
(* ConvertInitializer and what it dispatches to. *)

RECURSIVE ConvertInitializer(_)
RECURSIVE ConvertInitializerWithCast(_, _)
RECURSIVE ConvertArrayCONSTRUCTOR(_)
RECURSIVE ConvertRecordCONSTRUCTOR(_)
RECURSIVE FillElts(_, _, _, _)
RECURSIVE OverlayFields(_, _, _, _)

\* byte i (from 0) of the target encoding of a value of SizeInChars bytes
EncodedByte(bits, SizeInChars, i) ==
    LET k == IF BYTES_BIG_ENDIAN THEN SizeInChars - 1 - i ELSE i
    IN  ConstantInt(8, [j \in 1..8 |->
                           IF 8 * k + j <= Len(bits) THEN bits[8 * k + j] ELSE 0])

ConvertCST(exp) ==
    LET type == TREE_TYPE(exp)
        SizeInChars == (TYPE_SIZE(type) + CHAR_BIT - 1) \div CHAR_BIT
    IN  ConstantArray(ArrayType(IntegerType(8), SizeInChars),
                      [i \in 1..SizeInChars |->
                          EncodedByte(exp.bits, SizeInChars, i - 1)])

\* InStr[i] as the host reads it, whatever the byte order of the target
HostInteger_NeverSwapped(str, i, n) ==
    LET byte(k) == str[n * i + k + 1]
        \* the host reads byte k as its k-th least significant (little-endian
        \* host) or most significant (big-endian host) byte
        read == [j \in 0..(8 * n - 1) |->
                   LET k == j \div 8
                   IN  byte(IF isBigEndianHost THEN n - 1 - k ELSE k)[(j % 8) + 1]]
        swapped == [j \in 0..(8 * n - 1) |->
                      read[8 * (n - 1 - (j \div 8)) + (j % 8)]]
        val == IF isBigEndianHost = BYTES_BIG_ENDIAN THEN read ELSE read
    IN  ConstantInt(8 * n, [j \in 1..(8 * n) |-> val[j - 1]])

\* InStr[i] read as an integer of n bytes by the host, swapped when the
\* host's byte order is not the target's; bytes are held least significant
\* bit first
HostInteger(str, i, n) ==
    LET byte(k) == str[n * i + k + 1]
        \* the host reads byte k as its k-th least significant (little-endian
        \* host) or most significant (big-endian host) byte
        read == [j \in 0..(8 * n - 1) |->
                   LET k == j \div 8
                   IN  byte(IF isBigEndianHost THEN n - 1 - k ELSE k)[(j % 8) + 1]]
        swapped == [j \in 0..(8 * n - 1) |->
                      read[8 * (n - 1 - (j \div 8)) + (j % 8)]]
        val == IF isBigEndianHost = BYTES_BIG_ENDIAN THEN read ELSE swapped
    IN  ConstantInt(8 * n, [j \in 1..(8 * n) |-> val[j - 1]])

\* the tail of ConvertSTRING_CST: the elements read, cut or zero-filled to
\* the length of the array type
SizedString(exp, StrTy, Elts, LenInElts) ==
    LET ElTy == StrTy.elt
        Unbounded == StrTy.n = 0 /\ TREE_TYPE(exp).len = NoSize
        ConstantSize ==
            IF LenInElts # StrTy.n /\ Unbounded THEN LenInElts ELSE StrTy.n
        FinalTy ==
            IF LenInElts # StrTy.n /\ Unbounded
            THEN ArrayType(ElTy, LenInElts) ELSE StrTy
    IN  ConstantArray(FinalTy,
                      IF LenInElts = ConstantSize THEN Elts
                      ELSE IF ConstantSize < LenInElts
                      THEN SubSeq(Elts, 1, ConstantSize)
                      ELSE [i \in 1..(Len(Elts) + ConstantSize - LenInElts) |->
                               IF i <= Len(Elts) THEN Elts[i]
                               ELSE NullInt(ElTy)])

ConvertSTRING_CST(exp) ==
    With(ConvertType(TREE_TYPE(exp)), LAMBDA StrTy :
         IF StrTy.id # "Array" THEN Fault
         ELSE
         LET Len_ == Len(exp.str)
             n == IF StrTy.elt = IntegerType(8) THEN 1
                  ELSE IF StrTy.elt = IntegerType(16) THEN 2
                  ELSE IF StrTy.elt = IntegerType(32) THEN 4
                  ELSE 0
         IN  IF n = 0 THEN AssertFailed
             ELSE IF Len_ % n # 0 /\ ~NDEBUG THEN Fault
             ELSE SizedString(exp, StrTy,
                              [i \in 1..(Len_ \div n) |->
                                  HostInteger(exp.str, i - 1, n)],
                              Len_ \div (TYPE_SIZE(TREE_TYPE(TREE_TYPE(exp))) \div 8)))

\* AddressOf, for the declarations of the model
AddressOf(exp) ==
    IF TREE_CODE(exp) = "VAR_DECL" THEN Scalar(PointerTy, exp.addr) ELSE Fault

ConvertADDR_EXPR(exp) == AddressOf(exp.op)

\* the operand of a sum: a pointer is taken as an integer of its width
IntOperand(C, IsSigned, IsPtr) ==
    IF IsPtr THEN CreateCast(C, IsSigned, getIntPtrType) ELSE C

ConvertBinOp_CST(exp) ==
    Try(ConvertInitializer(exp.op0), LAMBDA LHS0 :
    Try(ConvertInitializer(exp.op1), LAMBDA RHS0 :
        IF ~IsScalarTy(LHS0.ty) \/ ~IsScalarTy(RHS0.ty) THEN Fault
        ELSE
        LET LHSIsSigned == ~TYPE_UNSIGNED(TREE_TYPE(exp.op0))
            RHSIsSigned == ~TYPE_UNSIGNED(TREE_TYPE(exp.op1))
            IsPtr == LHS0.ty.id = "Pointer"
        IN  With(IntOperand(LHS0, LHSIsSigned, IsPtr), LAMBDA LHS :
            With(IntOperand(RHS0, RHSIsSigned, IsPtr), LAMBDA RHS :
                 IF LHS.ty # RHS.ty THEN Fault
                 ELSE CreateCast(IF TREE_CODE(exp) = "PLUS_EXPR"
                                 THEN CreateAdd(LHS, RHS)
                                 ELSE CreateSub(LHS, RHS),
                                 LHSIsSigned, ConvertType(TREE_TYPE(exp)))))))

ConvertPOINTER_PLUS_EXPR(exp) ==
    Try(ConvertInitializer(exp.op0), LAMBDA Ptr :
    Try(ConvertInitializer(exp.op1), LAMBDA Idx :
        IF Ptr.ty.id # "Pointer" \/ Idx.ty.id # "Integer" THEN Fault
        ELSE CreateBitCast(CreateAdd(CreateBitCast(Ptr, getIntPtrType),
                                     CreateCast(Idx, TRUE, getIntPtrType)),
                           ConvertType(TREE_TYPE(exp)))))

ConvertVIEW_CONVERT_EXPR(exp) == ConvertInitializer(exp.op)

ConvertInitializerWithCast(exp, type) ==
    Try(ConvertInitializer(exp), LAMBDA C :
        IF type = TREE_TYPE(exp) \/ AGGREGATE_TYPE_P(TREE_TYPE(exp))
             \/ AGGREGATE_TYPE_P(type)
        THEN C
        ELSE With(ConvertType(TREE_TYPE(exp)), LAMBDA SrcTy :
             With(ConvertType(type), LAMBDA DestTy :
                  IF SrcTy = DestTy THEN C
                  ELSE Try(InterpretAsType(C, SrcTy, 0), LAMBDA C2 :
                           CreateCast(C2, ~TYPE_UNSIGNED(TREE_TYPE(exp)), DestTy)))))

\* an array of Units bytes (or a single byte) of undefined contents
UndefUnits(Units) ==
    IF Units = 1 THEN UndefInt(IntegerType(8))
    ELSE ConstantArray(ArrayType(IntegerType(8), Units),
                       [i \in 1..Units |-> UndefInt(IntegerType(8))])

\* Val, padded out to the size of an array element
PadElement(Val, EltSize) ==
    With(getTypeAllocSizeInBits(Val.ty), LAMBDA ValSize :
         IF ValSize > EltSize /\ ~NDEBUG THEN Fault
         ELSE IF ValSize < EltSize
         THEN ConstantStruct(<<Val, UndefUnits((EltSize - ValSize) \div BITS_PER_UNIT)>>,
                             FALSE)
         ELSE Val)

\* SlotsOfEntry with the lower bound never subtracted
SlotsOfEntry_KeepLowerBound(index, lower_bnd, NextIndex) ==
    IF index = Null THEN <<NextIndex, NextIndex>>
    ELSE IF TREE_CODE(index) = "RANGE_EXPR" THEN <<index.first, index.last>>
    ELSE <<index.low, index.low>>

\* <<FirstIndex, LastIndex>>: the first and last elements an entry fills
\* in, inclusive; lower_bnd is 0 where the code holds NULL_TREE
SlotsOfEntry(index, lower_bnd, NextIndex) ==
    IF index = Null THEN <<NextIndex, NextIndex>>
    ELSE IF TREE_CODE(index) = "RANGE_EXPR"
    THEN <<index.first - lower_bnd, index.last - lower_bnd>>
    ELSE <<index.low - lower_bnd, index.low - lower_bnd>>

\* Elts with the elements FirstIndex..LastIndex set to Val, grown to hold
\* them
SetSlots(Elts, FirstIndex, LastIndex, Val) ==
    [i \in 1..(IF LastIndex >= Len(Elts) THEN LastIndex + 1 ELSE Len(Elts)) |->
        IF FirstIndex <= i - 1 /\ i - 1 <= LastIndex THEN Val
        ELSE IF i <= Len(Elts) THEN Elts[i]
        ELSE Null]

\* the loop over the constructor's entries ix.., giving Elts
FillElts(exp, ix, Elts, NextIndex) ==
    IF ix > Len(exp.elts) THEN [Elts |-> Elts]
    ELSE
    LET init_type == TREE_TYPE(exp)
        elt_type == TREE_TYPE(TREE_TYPE(exp))
        lower_bnd == IF TREE_CODE(init_type) = "ARRAY_TYPE" THEN init_type.min
                     ELSE 0
        elt == exp.elts[ix]
    IN  Try(ConvertInitializerWithCast(elt.value, elt_type), LAMBDA Val0 :
        Try(PadElement(Val0, getTypeAllocSizeInBits(ConvertType(elt_type))),
            LAMBDA Val :
        With(SlotsOfEntry(elt.index, lower_bnd, NextIndex), LAMBDA Slots :
             LET FirstIndex == Slots[1]
                 LastIndex == Slots[2]
             IN  IF FirstIndex < 0 \/ LastIndex < 0 THEN AssertFailed
                 ELSE FillElts(exp, ix + 1,
                               SetSlots(Elts, FirstIndex, LastIndex, Val),
                               IF FirstIndex <= LastIndex THEN LastIndex + 1
                               ELSE FirstIndex))))

\* whether some element after the first has another type than the first
DifferentTypes(Elts) == \E i \in 2..Len(Elts) : Elts[i].ty # Elts[1].ty

\* MaxAlignOf that looks at the first element only
MaxAlignOf_FirstOnly(Elts) == getABITypeAlignment(Elts[1].ty)

\* the greatest ABI alignment (in bytes) of the first element and of the
\* elements of another type than the first
MaxAlignOf(Elts) ==
    With({getABITypeAlignment(Elts[i].ty) :
             i \in {j \in 1..Len(Elts) : j = 1 \/ Elts[j].ty # Elts[1].ty}},
         LAMBDA aligns : CHOOSE a \in aligns : \A b \in aligns : b <= a)

\* the tail of ConvertArrayCONSTRUCTOR: the constant made of the elements
\* Elts, every one of them set
ArrayOfElts(exp, InitTy, EltTy, Elts) ==
    With(Len(Elts) * getTypeAllocSizeInBits(EltTy), LAMBDA EltsSize :
    With(getTypeAllocSizeInBits(InitTy), LAMBDA TypeSize :
    With(MaxAlignOf(Elts) * 8 > TYPE_ALIGN(TREE_TYPE(exp)), LAMBDA Pack :
         IF DifferentTypes(Elts) \/ EltsSize < TypeSize \/ Pack
         THEN ConstantStruct(
                  IF EltsSize < TypeSize
                  THEN Append(Elts,
                              UndefUnits((TypeSize - EltsSize) \div BITS_PER_UNIT))
                  ELSE Elts,
                  Pack)
         ELSE IF Elts[1].ty = EltTy /\ TREE_CODE(TREE_TYPE(exp)) = "VECTOR_TYPE"
         THEN ConstantVector(Elts)
         ELSE ConstantArray(ArrayType(Elts[1].ty, Len(Elts)), Elts))))

ConvertArrayCONSTRUCTOR(exp) ==
    LET init_type == TREE_TYPE(exp)
        TypeElts == IF TREE_CODE(init_type) = "ARRAY_TYPE"
                    THEN ArrayLengthOf(init_type)
                    ELSE TYPE_VECTOR_SUBPARTS(init_type)
        Resized == IF TypeElts # NoSize THEN [i \in 1..TypeElts |-> Null] ELSE <<>>
    IN  With(ConvertType(init_type), LAMBDA InitTy :
        With(ConvertType(TREE_TYPE(init_type)), LAMBDA EltTy :
        Try(FillElts(exp, 1, Resized, 0), LAMBDA Filled :
            IF Len(Filled.Elts) = 0 THEN getDefaultValue(InitTy)
            ELSE With(getDefaultValue(EltTy), LAMBDA DefaultElt :
                      ArrayOfElts(exp, InitTy, EltTy,
                                  [i \in 1..Len(Filled.Elts) |->
                                      IF Filled.Elts[i] = Null THEN DefaultElt
                                      ELSE Filled.Elts[i]])))))

-----------------------------------------------------------------------------
(* FieldContents: a constant restricted to a range of bits. *)

FieldContents(r, c, starts) ==
    IF ~REmpty(r) /\ c = Null THEN AssertFailed
    ELSE [R |-> r, C |-> c, Starts |-> starts]

\* FieldContents::get(first, last, c)
FieldContents_get(first, last, c) ==
    IF IsBad(c) THEN c ELSE FieldContents(Range(first, last), c, first)

getRange(F) == F.R
ChangeRangeTo(F, r) == [F EXCEPT !.R = r]

getAsBits(F) ==
    IF REmpty(F.R) THEN Null
    ELSE InterpretAsType(F.C, IntegerType(RWidth(F.R)), F.R.First - F.Starts)

\* isSafeToReturnContentsDirectly without the test of the allocation size
isSafeToReturnContentsDirectly_AnySize(F) ==
    /\ F.C # Null
    /\ ~(~REmpty(F.R) /\ F.R.First # F.Starts)

isSafeToReturnContentsDirectly(F) ==
    /\ F.C # Null
    /\ ~(~REmpty(F.R) /\ F.R.First # F.Starts)
    /\ getTypeAllocSizeInBits(F.C.ty) <= RWidth(F.R)

\* the constant returned by F.extractContents(TD)
extractContents(F) ==
    IF isSafeToReturnContentsDirectly(F) THEN F.C
    ELSE IF REmpty(F.R) THEN UndefUnits(0)
    ELSE IF RWidth(F.R) % BITS_PER_UNIT # 0 /\ ~NDEBUG THEN Fault
    ELSE Try(getAsBits(F), LAMBDA C1 :
             IF isSafeToReturnContentsDirectly(
                    [R |-> F.R, C |-> C1, Starts |-> F.R.First])
             THEN C1
             ELSE Try(InterpretAsType(C1,
                                      GetUnitType(RWidth(F.R) \div BITS_PER_UNIT),
                                      0),
                      LAMBDA C2 :
                          IF ~isSafeToReturnContentsDirectly(
                                  [R |-> F.R, C |-> C2, Starts |-> F.R.First])
                               /\ ~NDEBUG
                          THEN Fault
                          ELSE C2))

\* JoinWith that ors the two values without moving them to their bits
JoinWith_Unshifted(F, S) ==
    With(RJoin(F.R, S.R), LAMBDA Hull :
    Try(getAsBits(F), LAMBDA A :
    Try(getAsBits(S), LAMBDA B :
        [R |-> Hull,
         C |-> CreateOr(CreateZExtOrBitCast(A, IntegerType(RWidth(Hull))),
                        CreateZExtOrBitCast(B, IntegerType(RWidth(Hull)))),
         Starts |-> Hull.First])))

\* F.JoinWith(S): the new value of F
JoinWith(F, S) ==
    Try(Merge(BitSlice(F.R, getAsBits(F)), BitSlice(S.R, getAsBits(S))),
        LAMBDA Bits :
            IF REmpty(Bits.R) THEN AssertFailed
            ELSE Try(getBits(Bits, Bits.R),
                     LAMBDA C : [R |-> Bits.R, C |-> C, Starts |-> Bits.R.First]))

-----------------------------------------------------------------------------
(* IntervalList<FieldContents, int, 8> (dragonegg/ADT/IntervalList.h): the *)
(* intervals of a layout, ordered by their first bit and disjoint.         *)

IntervalList(Intervals) == [Intervals |-> Intervals]

RECURSIVE JoinAll(_, _, _)
JoinAll(F, Others, i) ==
    IF i > Len(Others) \/ IsBad(F) THEN F
    ELSE JoinAll(JoinWith(F, Others[i]), Others, i + 1)

\* what is left of the interval X outside the range r: the part before r
\* and the part after it, each X with its range changed
Outside(X, r) ==
    (IF X.R.First < r.First
     THEN <<ChangeRangeTo(X, Range(X.R.First, r.First))>> ELSE <<>>)
      \o (IF X.R.Last > r.Last
          THEN <<ChangeRangeTo(X, Range(r.Last, X.R.Last))>> ELSE <<>>)

RECURSIVE OutsideAll(_, _, _)
OutsideAll(Others, r, i) ==
    IF i > Len(Others) THEN <<>>
    ELSE Outside(Others[i], r) \o OutsideAll(Others, r, i + 1)

\* Layout.AddInterval(I): within its range I replaces the intervals it
\* overlaps; what is left of them is disjoint from I and is joined with it
\* into one interval spanning the union
AddInterval(Layout, I) ==
    IF IsBad(Layout) THEN Layout
    ELSE IF IsBad(I) THEN I
    ELSE IF REmpty(I.R) THEN Layout
    ELSE LET before == SelectSeq(Layout.Intervals,
                                 LAMBDA X : X.R.Last <= I.R.First)
             over == SelectSeq(Layout.Intervals, LAMBDA X : RIntersects(X.R, I.R))
             after == SelectSeq(Layout.Intervals,
                                LAMBDA X : X.R.First >= I.R.Last)
         IN  Try(JoinAll(I, OutsideAll(over, I.R, 1), 1),
                 LAMBDA merged : IntervalList(before \o <<merged>> \o after))

AlignDown(x, Alignment) == (x \div Alignment) * Alignment

\* the intervals that share a unit of Alignment bits, joined
RECURSIVE Coalesce(_, _, _, _)
Coalesce(Layout, i, Out, Alignment) ==
    IF i > Len(Layout.Intervals) THEN IntervalList(Out)
    ELSE LET X == Layout.Intervals[i]
             n == Len(Out)
         IN  IF n > 0 /\ AlignDown(X.R.First, Alignment)
                           < RoundUp(Out[n].R.Last, Alignment)
             THEN Try(JoinWith(Out[n], X),
                      LAMBDA J :
                          Coalesce(Layout, i + 1, [Out EXCEPT ![n] = J], Alignment))
             ELSE Coalesce(Layout, i + 1, Append(Out, X), Alignment)

\* Layout.AlignBoundaries(Alignment): every interval begins and ends on a
\* multiple of Alignment
AlignBoundaries(Layout, Alignment) ==
    IF IsBad(Layout) THEN Layout
    ELSE Try(Coalesce(Layout, 1, <<>>, Alignment),
             LAMBDA Joined :
                 IntervalList(
                    [i \in 1..Len(Joined.Intervals) |->
                        LET F == Joined.Intervals[i]
                        IN  ChangeRangeTo(F, Range(AlignDown(F.R.First, Alignment),
                                                   RoundUp(F.R.Last, Alignment)))]))

getNumIntervals(Layout) == Len(Layout.Intervals)
getInterval(Layout, i) == Layout.Intervals[i + 1]

-----------------------------------------------------------------------------
(* ConvertRecordCONSTRUCTOR *)

\* the bits a field given no size takes: those of its type, cut at the end
\* of the record
DefaultWidth(FieldTy, FirstBit, TypeSize) ==
    With(getTypeAllocSizeInBits(FieldTy), LAMBDA Alloc :
         IF FirstBit + Alloc > TypeSize THEN TypeSize - FirstBit ELSE Alloc)

\* the loop that gives every field a zero starting value
RECURSIVE SeedFields(_, _, _, _)
SeedFields(fields, i, Layout, TypeSize) ==
    IF i > Len(fields) \/ IsBad(Layout) THEN Layout
    ELSE LET field == fields[i]
             FirstBit == getFieldOffsetInBits(fields[i])
         IN  IF ~OffsetIsLLVMCompatible(field)
             THEN SeedFields(fields, i + 1, Layout, TypeSize)
             ELSE IF FirstBit > TypeSize /\ ~NDEBUG THEN Fault
             ELSE With(ConvertType(TREE_TYPE(field)), LAMBDA FieldTy :
                  With(IF isInt64(DECL_SIZE(field)) THEN DECL_SIZE(field)
                       ELSE DefaultWidth(FieldTy, FirstBit, TypeSize),
                       LAMBDA BitWidth :
                           SeedFields(fields, i + 1,
                                      AddInterval(Layout,
                                                  FieldContents_get(
                                                      FirstBit, FirstBit + BitWidth,
                                                      getNullValue(FieldTy))),
                                      TypeSize)))

\* the loop over the constructor's entries ix.., giving the layout
OverlayFields(exp, ix, Layout, next_field) ==
    IF ix > Len(exp.elts) \/ IsBad(Layout) THEN Layout
    ELSE LET fields == TYPE_FIELDS(TREE_TYPE(exp))
             elt == exp.elts[ix]
             n == IF exp.elts[ix].index = Null THEN next_field
                  ELSE exp.elts[ix].index.n
         IN  IF n > Len(fields) THEN AssertFailed
             ELSE IF ~OffsetIsLLVMCompatible(fields[n]) THEN AssertFailed
             ELSE Try(ConvertInitializerWithCast(elt.value, TREE_TYPE(fields[n])),
                      LAMBDA Init :
                 LET field == fields[n]
                     FirstBit == getFieldOffsetInBits(fields[n])
                 IN  IF FirstBit
                          > getTypeAllocSizeInBits(ConvertType(TREE_TYPE(exp)))
                          /\ ~NDEBUG
                     THEN Fault
                     ELSE OverlayFields(
                              exp, ix + 1,
                              AddInterval(Layout,
                                          FieldContents_get(
                                              FirstBit,
                                              FirstBit
                                                + (IF isInt64(DECL_SIZE(field))
                                                   THEN DECL_SIZE(field)
                                                   ELSE getTypeAllocSizeInBits(Init.ty)),
                                              Init)),
                              n + 1))

\* NeedsPacking without the test of the first bit of the interval
NeedsPacking_OverAlignedOnly(Layout, Vals, MaxAlign) ==
    \E i \in 0..(getNumIntervals(Layout) - 1) :
        getABITypeAlignment(Vals[i + 1].ty) * 8 > MaxAlign

\* whether the struct returned has to be packed; Vals are the contents
\* extracted from the intervals
NeedsPacking(Layout, Vals, MaxAlign) ==
    \E i \in 0..(getNumIntervals(Layout) - 1) :
        LET First == getRange(getInterval(Layout, i)).First
            Alignment == getABITypeAlignment(Vals[i + 1].ty) * 8
        IN  Alignment > MaxAlign \/ First % Alignment # 0

\* EmitFields that fills every gap, whatever the alignment of the value
\* that follows it
RECURSIVE EmitFields_FillEveryGap(_, _, _, _, _, _)
EmitFields_FillEveryGap(Layout, Vals, i, Elts, EndOfPrevious, Pack) ==
    IF i >= getNumIntervals(Layout)
    THEN [Elts |-> Elts, EndOfPrevious |-> EndOfPrevious]
    ELSE LET First == getRange(getInterval(Layout, i)).First
             Val == Vals[i + 1]
         IN  IF EndOfPrevious > First /\ ~NDEBUG THEN Fault
             ELSE EmitFields_FillEveryGap(
                      Layout, Vals, i + 1,
                      Append(IF First > EndOfPrevious
                             THEN Append(Elts,
                                         UndefUnits((First - EndOfPrevious)
                                                      \div BITS_PER_UNIT))
                             ELSE Elts,
                             Val),
                      First + getTypeAllocSizeInBits(Val.ty), Pack)

\* the loop that creates the elements of the struct, padding included:
\* Elts and EndOfPrevious after the intervals i..
RECURSIVE EmitFields(_, _, _, _, _, _)
EmitFields(Layout, Vals, i, Elts, EndOfPrevious, Pack) ==
    IF i >= getNumIntervals(Layout)
    THEN [Elts |-> Elts, EndOfPrevious |-> EndOfPrevious]
    ELSE LET First == getRange(getInterval(Layout, i)).First
             Val == Vals[i + 1]
         IN  With(/\ First > EndOfPrevious
                  /\ ~(~Pack /\ First = RoundUp(EndOfPrevious,
                                                getABITypeAlignment(Val.ty) * 8)),
                  LAMBDA NeedPadding :
                 IF EndOfPrevious > First /\ ~NDEBUG THEN Fault
                 ELSE IF NeedPadding /\ (First - EndOfPrevious) % BITS_PER_UNIT # 0
                           /\ ~NDEBUG
                 THEN Fault
                 ELSE EmitFields(Layout, Vals, i + 1,
                                 Append(IF NeedPadding
                                        THEN Append(Elts,
                                                    UndefUnits((First - EndOfPrevious)
                                                                 \div BITS_PER_UNIT))
                                        ELSE Elts,
                                        Val),
                                 First + getTypeAllocSizeInBits(Val.ty), Pack))

\* the padding appended so that the initializer is as big as its type
TailPadding(Elts, EndOfPrevious, TypeSize) ==
    IF EndOfPrevious < TypeSize
    THEN Append(Elts, UndefUnits((TypeSize - EndOfPrevious) \div BITS_PER_UNIT))
    ELSE Elts

\* the struct made of the intervals of the layout, once their boundaries
\* are aligned
StructOfLayout(exp, Layout, TypeSize) ==
    AllGood([i \in 1..Len(Layout.Intervals) |->
                extractContents(Layout.Intervals[i])],
            LAMBDA Vals :
    With(NeedsPacking(Layout, Vals, TYPE_ALIGN(TREE_TYPE(exp))), LAMBDA Pack :
    Try(EmitFields(Layout, Vals, 0, <<>>, 0, Pack), LAMBDA Emitted :
        IF Emitted.EndOfPrevious < TypeSize
             /\ (TypeSize - Emitted.EndOfPrevious) % BITS_PER_UNIT # 0
             /\ ~NDEBUG
        THEN Fault
        ELSE ConstantStruct(TailPadding(Emitted.Elts, Emitted.EndOfPrevious,
                                        TypeSize),
                            Pack))))

ConvertRecordCONSTRUCTOR(exp) ==
    With(getTypeAllocSizeInBits(ConvertType(TREE_TYPE(exp))), LAMBDA TypeSize :
    Try(AlignBoundaries(
            OverlayFields(exp, 1,
                          IF flag_default_initialize_globals
                          THEN SeedFields(TYPE_FIELDS(TREE_TYPE(exp)), 1,
                                          IntervalList(<<>>), TypeSize)
                          ELSE IntervalList(<<>>),
                          1),
            BITS_PER_UNIT),
        LAMBDA Layout : StructOfLayout(exp, Layout, TypeSize)))

\* ConvertCONSTRUCTOR that gives a constructor of any other type the
\* default value of the type
ConvertCONSTRUCTOR_Lenient(exp) ==
    IF Len(exp.elts) = 0 THEN getDefaultValue(ConvertType(TREE_TYPE(exp)))
    ELSE CASE TREE_CODE(TREE_TYPE(exp)) \in {"VECTOR_TYPE", "ARRAY_TYPE"} ->
                ConvertArrayCONSTRUCTOR(exp)
           [] TREE_CODE(TREE_TYPE(exp))
                \in {"QUAL_UNION_TYPE", "RECORD_TYPE", "UNION_TYPE"} ->
                ConvertRecordCONSTRUCTOR(exp)
           [] OTHER -> getDefaultValue(ConvertType(TREE_TYPE(exp)))

ConvertCONSTRUCTOR(exp) ==
    IF Len(exp.elts) = 0 THEN getDefaultValue(ConvertType(TREE_TYPE(exp)))
    ELSE CASE TREE_CODE(TREE_TYPE(exp)) \in {"VECTOR_TYPE", "ARRAY_TYPE"} ->
                ConvertArrayCONSTRUCTOR(exp)
           [] TREE_CODE(TREE_TYPE(exp))
                \in {"QUAL_UNION_TYPE", "RECORD_TYPE", "UNION_TYPE"} ->
                ConvertRecordCONSTRUCTOR(exp)
           [] OTHER -> Fault

\* the checks of the guarantees made about the value returned, compiled in
\* with assertions only
CheckedInit(exp, Init) ==
    IF NDEBUG THEN Init
    ELSE With(getTypeAllocSizeInBits(Init.ty), LAMBDA InitSize :
         With(getTypeAllocSizeInBits(ConvertType(TREE_TYPE(exp))), LAMBDA TypeSize :
              IF InitSize < TypeSize THEN Fault
              ELSE IF isInt64OfType(TREE_TYPE(exp)) /\ InitSize # TypeSize THEN Fault
              ELSE IF getABITypeAlignment(Init.ty) * 8 > TYPE_ALIGN(TREE_TYPE(exp))
              THEN Fault
              ELSE Init))

ConvertInitializer(exp) ==
    Try(CASE TREE_CODE(exp) = "INTEGER_CST" ->
                InterpretAsType(ConvertCST(exp), ConvertType(TREE_TYPE(exp)), 0)
          [] TREE_CODE(exp) = "STRING_CST" -> ConvertSTRING_CST(exp)
          [] TREE_CODE(exp) = "ADDR_EXPR" -> ConvertADDR_EXPR(exp)
          [] TREE_CODE(exp) = "CONSTRUCTOR" -> ConvertCONSTRUCTOR(exp)
          [] TREE_CODE(exp) \in {"CONVERT_EXPR", "NOP_EXPR"} ->
                ConvertInitializerWithCast(exp.op, TREE_TYPE(exp))
          [] TREE_CODE(exp) \in {"MINUS_EXPR", "PLUS_EXPR"} -> ConvertBinOp_CST(exp)
          [] TREE_CODE(exp) = "POINTER_PLUS_EXPR" -> ConvertPOINTER_PLUS_EXPR(exp)
          [] TREE_CODE(exp) = "VIEW_CONVERT_EXPR" -> ConvertVIEW_CONVERT_EXPR(exp)
          [] OTHER -> Fault,
        LAMBDA Init : CheckedInit(exp, Init))

-----------------------------------------------------------------------------
(* The GCC types and expressions drawn as inputs. *)

uchar == INTEGER_TYPE(8, 8, 8, TRUE)
schar == INTEGER_TYPE(8, 8, 8, FALSE)
ushort == INTEGER_TYPE(16, 16, 16, TRUE)
uint == INTEGER_TYPE(32, 32, 32, TRUE)
\* the types of a 3 bit and of a 5 bit bitfield
uint3 == INTEGER_TYPE(3, 8, 8, TRUE)
uint5 == INTEGER_TYPE(5, 8, 8, TRUE)

\* unsigned char [4], the same indexed from 1, and with no upper bound
uchar4 == ARRAY_TYPE(uchar, 0, 4, 8)
uchar4from1 == ARRAY_TYPE(uchar, 1, 4, 8)
ucharN == ARRAY_TYPE(uchar, 0, NoSize, 8)
\* unsigned short [2], and the same with the alignment forced down to 1 byte
ushort2 == ARRAY_TYPE(ushort, 0, 2, 16)
ushort2align1 == ARRAY_TYPE(ushort, 0, 2, 8)
\* a vector of 4 unsigned char
v4uchar == VECTOR_TYPE(uchar, 4, 32)

\* struct { unsigned char a; unsigned short b; }
rec_a_b ==
    RECORD_TYPE(<<FIELD_DECL(uchar, 0, 8), FIELD_DECL(ushort, 16, 16)>>, 32, 16,
                StructType(<<I8, I16>>, FALSE))
\* the same, packed
rec_packed ==
    RECORD_TYPE(<<FIELD_DECL(uchar, 0, 8), FIELD_DECL(ushort, 8, 16)>>, 24, 8,
                StructType(<<I8, I16>>, TRUE))
\* struct { unsigned x : 3; unsigned y : 5; }
rec_bits ==
    RECORD_TYPE(<<FIELD_DECL(uint3, 0, 3), FIELD_DECL(uint5, 3, 5)>>, 8, 8,
                StructType(<<I8>>, FALSE))
\* struct { unsigned char n; unsigned char data[]; }
rec_flex ==
    RECORD_TYPE(<<FIELD_DECL(uchar, 0, 8), FIELD_DECL(ucharN, 8, NoSize)>>, 8, 8,
                StructType(<<I8, ArrayType(I8, 0)>>, FALSE))
rec_packed2 == ARRAY_TYPE(rec_packed, 0, 2, 8)

IntCst(type, n) == INTEGER_CST(type, NatToBits(n, TYPE_SIZE(type)))
\* the bytes of a string, target order
Chars(ns) == [i \in 1..Len(ns) |-> NatToBits(ns[i], 8)]

aVariable == VAR_DECL(uint, NatToBits(4096, PointerSizeInBits))

ScalarExps ==
    {IntCst(uchar, 165), IntCst(schar, 165), IntCst(ushort, 258),
     INTEGER_CST(uint, C01020304.bits),
     ADDR_EXPR(POINTER_TYPE, aVariable)}

StringExps ==
    {STRING_CST(uchar4, Chars(<<97, 98>>)),
     STRING_CST(uchar4, Chars(<<97, 98, 99, 100, 101>>)),
     STRING_CST(ucharN, Chars(<<97, 98, 99>>)),
     STRING_CST(ushort2, Chars(<<1, 2>>)),
     STRING_CST(ushort2, Chars(<<1, 2, 3, 4, 5, 6>>))}

\* the sequences of at most n elements of S
RECURSIVE SeqsUpTo(_, _)
SeqsUpTo(S, n) ==
    IF n = 0 THEN {<<>>}
    ELSE LET shorter == SeqsUpTo(S, n - 1)
         IN  shorter \cup {Append(q, x) : q \in {r \in shorter : Len(r) = n - 1},
                                           x \in S}

\* the indices an entry for an array of len elements from min on may have
ArrayIndices(min, len) ==
    {Null} \cup {INDEX(i) : i \in min..(min + len - 1)}
           \cup {RANGE_EXPR(f, l) : f \in min..(min + len - 1),
                                    l \in min..(min + len - 1)}

\* the index of the first element of an array or vector type
LowerBound(type) == IF TREE_CODE(type) = "ARRAY_TYPE" THEN type.min ELSE 0

\* the first and the last slot that entry k of a constructor covers, counted
\* from the lower bound of the array type
RECURSIVE FirstSlot(_, _)
RECURSIVE LastSlot(_, _)
FirstSlot(exp, k) ==
    LET index == exp.elts[k].index
        min == LowerBound(TREE_TYPE(exp))
    IN  IF index = Null THEN (IF k = 1 THEN 0 ELSE LastSlot(exp, k - 1) + 1)
        ELSE IF TREE_CODE(index) = "RANGE_EXPR" THEN index.first - min
        ELSE index.low - min

LastSlot(exp, k) ==
    LET index == exp.elts[k].index
        min == LowerBound(TREE_TYPE(exp))
    IN  IF index = Null THEN FirstSlot(exp, k)
        ELSE IF TREE_CODE(index) = "RANGE_EXPR" THEN index.last - min
        ELSE index.low - min

\* entry k of the constructors drawn for C10 has the value 10 * k
ValueOfEntry(k, type) == IntCst(type, 10 * k)

ArrayCtors(type, len) ==
    {CONSTRUCTOR(type, [k \in 1..Len(q) |->
                           CONSTRUCTOR_ELT(q[k], ValueOfEntry(k, TREE_TYPE(type)))]) :
        q \in {r \in SeqsUpTo(ArrayIndices(LowerBound(type), len), MaxEntries) :
                  \A k \in 1..Len(r) :
                      r[k] # Null /\ TREE_CODE(r[k]) = "RANGE_EXPR"
                          => r[k].first <= r[k].last}}

\* GCC gives an array of known length no element beyond its last one
WithinBounds(exp) ==
    TREE_TYPE(exp).len # NoSize
        => \A k \in 1..Len(exp.elts) : LastSlot(exp, k) < TREE_TYPE(exp).len

ArrayExps ==
    {exp \in ArrayCtors(uchar4, 4) \cup ArrayCtors(uchar4from1, 4)
               \cup ArrayCtors(ucharN, 4) \cup ArrayCtors(v4uchar, 4)
               \cup ArrayCtors(ushort2, 2) \cup ArrayCtors(ushort2align1, 2) :
        WithinBounds(exp)}

-----------------------------------------------------------------------------
(* ConvertInitializer applied to an expression. *)

Convert ==
    /\ pc = "start"
    /\ acc' = ConvertInitializer(input.exp)
    /\ call' = [op |-> "ConvertInitializer"]
    /\ pc' = IF IsFault(acc') THEN "fault"
             ELSE IF IsBad(acc') THEN "undefined"
             ELSE "converted"
    /\ UNCHANGED <<target, input>>

(* Array and vector constructors. *)

InitArray ==
    /\ BYTES_BIG_ENDIAN \in BOOLEAN
    /\ NDEBUG \in BOOLEAN
    /\ flag_default_initialize_globals \in BOOLEAN
    /\ isBigEndianHost = FALSE
    /\ pc = "start"
    /\ input \in [exp : ArrayExps]
    /\ acc = Null
    /\ call = Null

NextArray == Convert

SpecArray == InitArray /\ [][NextArray]_vars

\* the entries that cover slot i
C10_Covering(exp, i) ==
    {k \in 1..Len(exp.elts) : FirstSlot(exp, k) <= i /\ i <= LastSlot(exp, k)}

\* what slot i has to hold
C10_Expected(exp, i) ==
    LET cover == C10_Covering(exp, i)
        elt_type == TREE_TYPE(TREE_TYPE(exp))
    IN  IF cover = {} THEN getDefaultValue(ConvertType(elt_type))
        ELSE LET k == CHOOSE x \in cover : \A y \in cover : y <= x
             IN  ConstantInt(elt_type.prec,
                             SubSeq(exp.elts[k].value.bits, 1, elt_type.prec))

\* the number of slots: the declared length, or more when an entry lies
\* beyond it
C10_Slots(exp) ==
    LET declared == IF TREE_TYPE(exp).len = NoSize THEN 0 ELSE TREE_TYPE(exp).len
        ends == {declared} \cup {LastSlot(exp, k) + 1 : k \in 1..Len(exp.elts)}
    IN  CHOOSE x \in ends : \A y \in ends : y <= x

C10_Example ==
    CONSTRUCTOR(uchar4, <<CONSTRUCTOR_ELT(INDEX(0), IntCst(uchar, 10)),
                          CONSTRUCTOR_ELT(INDEX(2), IntCst(uchar, 20))>>)

C10_ExampleResult ==
    ConstantArray(ArrayType(I8, 4),
                  <<ConstantInt(8, NatToBits(10, 8)), ConstantInt(8, NatToBits(0, 8)),
                    ConstantInt(8, NatToBits(20, 8)), ConstantInt(8, NatToBits(0, 8))>>)

\* C10: in the constant an array or vector constructor is converted to, slot i (counted
\* from the type's lower bound) holds the value of the last entry whose
\* index or index range covers i, an entry with no index going to the slot
\* after the last one the entry before it filled (slot 0 for the first);
\* every slot no entry covers holds the default value of the element type.
\* With zero as the default, {0: 10, 2: 20} for 4 unsigned bytes gives
\* [10, 0, 20, 0].
C10_SlotsOfArrayConstructor ==
    /\ pc = "converted" =>
          /\ Len(acc.elts) = C10_Slots(input.exp)
          /\ \A i \in 0..(C10_Slots(input.exp) - 1) :
                CreateExtractValue(acc, i) = C10_Expected(input.exp, i)
    /\ (pc # "start" /\ input.exp = C10_Example /\ flag_default_initialize_globals)
          => acc = C10_ExampleResult

C10_Witness ==
    /\ pc = "converted"
    /\ input.exp = C10_Example
    /\ flag_default_initialize_globals
    /\ acc = C10_ExampleResult

-----------------------------------------------------------------------------
(* Every kind of expression ConvertInitializer takes. *)

CastExps ==
    {NOP_EXPR(ushort, IntCst(uchar, 165)), NOP_EXPR(ushort, IntCst(schar, 165)),
     NOP_EXPR(uchar, IntCst(ushort, 258)), NOP_EXPR(schar, IntCst(uchar, 165)),
     NOP_EXPR(uint, ADDR_EXPR(POINTER_TYPE, aVariable))}

\* reinterpretations between types of one size
ViewExps ==
    {VIEW_CONVERT_EXPR(uchar4, INTEGER_CST(uint, C01020304.bits)),
     VIEW_CONVERT_EXPR(uint, STRING_CST(uchar4, Chars(<<97, 98, 99, 100>>))),
     VIEW_CONVERT_EXPR(schar, IntCst(uchar, 165)),
     VIEW_CONVERT_EXPR(rec_a_b, INTEGER_CST(uint, C01020304.bits))}

ArithExps ==
    {PLUS_EXPR(uint, IntCst(uint, 250), IntCst(uint, 10)),
     MINUS_EXPR(uchar, IntCst(uchar, 3), IntCst(uchar, 5)),
     MINUS_EXPR(uint, ADDR_EXPR(POINTER_TYPE, aVariable),
                ADDR_EXPR(POINTER_TYPE, aVariable)),
     POINTER_PLUS_EXPR(POINTER_TYPE, ADDR_EXPR(POINTER_TYPE, aVariable),
                       IntCst(uint, 4))}

RecordTypes == {rec_a_b, rec_packed, rec_bits, rec_flex}

\* the field that entry k of a record constructor with the indices q
\* initializes
RECURSIVE FieldOfEntry(_, _)
FieldOfEntry(q, k) ==
    IF q[k] # Null THEN q[k].n
    ELSE IF k = 1 THEN 1
    ELSE FieldOfEntry(q, k - 1) + 1

\* the value entry k gives the field: a string for the flexible array, and
\* for an integer field one that changes with the field and with the entry
ValueOfField(field, n, k) ==
    LET type == TREE_TYPE(field)
    IN  IF TREE_CODE(type) = "ARRAY_TYPE"
        THEN STRING_CST(type, Chars(<<97, 98, 99>>))
        ELSE IntCst(type, (12 * n + k - 8) % (2 ^ type.prec))

RecordCtors(type) ==
    LET fields == TYPE_FIELDS(type)
        indices == {Null} \cup {FIELD(n) : n \in 1..Len(fields)}
    IN  {CONSTRUCTOR(type,
                     [k \in 1..Len(q) |->
                         CONSTRUCTOR_ELT(q[k],
                                         ValueOfField(fields[FieldOfEntry(q, k)],
                                                      FieldOfEntry(q, k), k))]) :
            q \in {r \in SeqsUpTo(indices, MaxEntries) :
                      \A k \in 1..Len(r) : FieldOfEntry(r, k) <= Len(fields)}}

RecordExps == UNION {RecordCtors(type) : type \in RecordTypes}

\* an array of two packed records, each given by a constructor of its own
NestedExps ==
    {CONSTRUCTOR(rec_packed2,
                 <<CONSTRUCTOR_ELT(Null, r1), CONSTRUCTOR_ELT(INDEX(1), r2)>>) :
        r1 \in {r \in RecordCtors(rec_packed) : Len(r.elts) = 1},
        r2 \in {r \in RecordCtors(rec_packed) : Len(r.elts) = 2}}

ConvertExps ==
    ScalarExps \cup StringExps \cup CastExps \cup ViewExps \cup ArithExps
      \cup {aVariable} \cup RecordExps \cup NestedExps
      \cup {exp \in ArrayExps : Len(exp.elts) <= 1}

InitConvert ==
    /\ BYTES_BIG_ENDIAN \in BOOLEAN
    /\ NDEBUG \in BOOLEAN
    /\ flag_default_initialize_globals \in BOOLEAN
    /\ isBigEndianHost \in BOOLEAN
    /\ pc = "start"
    /\ input \in [exp : ConvertExps]
    /\ acc = Null
    /\ call = Null

NextConvert == Convert

SpecConvert == InitConvert /\ [][NextConvert]_vars

\* whether GCC knows the size of the type of the expression converted
SizeIsKnown == TYPE_SIZE(TREE_TYPE(input.exp)) # NoSize

\* the allocation sizes of the constant returned and of the converted type
InitSize == getTypeAllocSizeInBits(acc.ty)
TypeSize == getTypeAllocSizeInBits(ConvertType(TREE_TYPE(input.exp)))

\* the constant returned is never smaller than the converted type
C1_AtLeastTheTypeSize == pc = "converted" => InitSize >= TypeSize

\* C1: the allocation size of the constant ConvertInitializer returns is at
\* least the allocation size of the converted type of the expression, and
\* equal to it when the size of the expression's type is a compile-time
\* integer.
C1_SizeOfInitializer ==
    pc = "converted" =>
        /\ InitSize >= TypeSize
        /\ SizeIsKnown => InitSize = TypeSize

\* C2: the ABI alignment, in bits, of the type of the constant
\* ConvertInitializer returns is no more than the alignment of the
\* expression's type.
C2_AlignmentCeiling ==
    pc = "converted" =>
        getABITypeAlignment(acc.ty) * 8 <= TYPE_ALIGN(TREE_TYPE(input.exp))

-----------------------------------------------------------------------------
(* ConvertRecordCONSTRUCTOR step by step: the layout after every interval  *)
(* added, after its boundaries are aligned, and the struct made of it.     *)

uint2 == INTEGER_TYPE(2, 8, 8, TRUE)
uint6 == INTEGER_TYPE(6, 8, 8, TRUE)
uint7 == INTEGER_TYPE(7, 8, 8, TRUE)

\* struct { unsigned x : 3; unsigned y : 7; unsigned z : 6; }
rec_bits3 ==
    RECORD_TYPE(<<FIELD_DECL(uint3, 0, 3), FIELD_DECL(uint7, 3, 7),
                  FIELD_DECL(uint6, 10, 6)>>, 16, 8,
                StructType(<<I8, I8>>, FALSE))
\* struct { unsigned char a; unsigned short b; unsigned char c; }
rec_a_b_c ==
    RECORD_TYPE(<<FIELD_DECL(uchar, 0, 8), FIELD_DECL(ushort, 16, 16),
                  FIELD_DECL(uchar, 32, 8)>>, 48, 16,
                StructType(<<I8, I16, I8>>, FALSE))
\* union { unsigned char a; unsigned short b; }
union_a_b ==
    UNION_TYPE(<<FIELD_DECL(uchar, 0, 8), FIELD_DECL(ushort, 0, 16)>>, 16, 16,
               StructType(<<I16>>, FALSE))

\* struct { unsigned char a; unsigned x : 3; unsigned y : 2; unsigned z : 3; }
rec_a_xyz ==
    RECORD_TYPE(<<FIELD_DECL(uchar, 0, 8), FIELD_DECL(uint3, 8, 3),
                  FIELD_DECL(uint2, 11, 2), FIELD_DECL(uint3, 13, 3)>>, 16, 8,
                StructType(<<I8, I8>>, FALSE))
\* struct { unsigned char a; unsigned x : 3; }
rec_a_bit ==
    RECORD_TYPE(<<FIELD_DECL(uchar, 0, 8), FIELD_DECL(uint3, 8, 3)>>, 16, 8,
                StructType(<<I8, I8>>, FALSE))

\* struct __attribute__((packed, aligned(2)))
\*     { unsigned char a; unsigned short b; }
rec_packed_aligned ==
    RECORD_TYPE(<<FIELD_DECL(uchar, 0, 8), FIELD_DECL(ushort, 8, 16)>>, 32, 16,
                StructType(<<I8, I16, I8>>, TRUE))

\* the records whose fields do not overlap, and all the records drawn
StructTypes ==
    {rec_bits, rec_bits3, rec_a_xyz, rec_a_bit, rec_a_b, rec_a_b_c, rec_packed,
     rec_packed_aligned, rec_flex}
LayoutTypes == StructTypes \cup {union_a_b}

\* the value given to field n: 5 for the first field, 17 for the second
\* one, with a second byte that is not zero where the field has one
LayoutNumber(field, n) ==
    (12 * n - 7 + (IF TREE_TYPE(field).prec > 8 THEN 256 * (n + 1) ELSE 0))
        % (2 ^ TREE_TYPE(field).prec)

LayoutValue(field, n) ==
    IF TREE_CODE(TREE_TYPE(field)) = "ARRAY_TYPE"
    THEN STRING_CST(TREE_TYPE(field), Chars(<<97, 98, 99>>))
    ELSE IntCst(TREE_TYPE(field), LayoutNumber(field, n))

\* the constructors of a record that ConvertCONSTRUCTOR hands on: one to
\* MaxEntries fields, each once, in any order, an entry naming its field
\* or following the entry before it
LayoutCtors(type) ==
    LET fields == TYPE_FIELDS(type)
        indices == {Null} \cup {FIELD(n) : n \in 1..Len(fields)}
    IN  {CONSTRUCTOR(type,
                     [k \in 1..Len(q) |->
                         CONSTRUCTOR_ELT(q[k],
                                         LayoutValue(fields[FieldOfEntry(q, k)],
                                                     FieldOfEntry(q, k)))]) :
            q \in {r \in SeqsUpTo(indices, MaxEntries) :
                      /\ Len(r) > 0
                      /\ \A k \in 1..Len(r) : FieldOfEntry(r, k) <= Len(fields)
                      /\ \A j, k \in 1..Len(r) :
                            j # k => FieldOfEntry(r, j) # FieldOfEntry(r, k)}}

LayoutExps == UNION {LayoutCtors(type) : type \in LayoutTypes}

\* the field that entry k of the constructor initializes
EntryField(exp, k) == FieldOfEntry([j \in 1..Len(exp.elts) |-> exp.elts[j].index], k)

\* iteration i of the loop of SeedFields, alone
SeedOne(exp, i, Layout) ==
    SeedFields(SubSeq(TYPE_FIELDS(TREE_TYPE(exp)), 1, i), i, Layout,
               getTypeAllocSizeInBits(ConvertType(TREE_TYPE(exp))))

\* iteration ix of the loop of OverlayFields, alone
OverlayOne(exp, ix, Layout) ==
    OverlayFields([exp EXCEPT !.elts = SubSeq(exp.elts, 1, ix)], ix, Layout,
                  IF ix = 1 THEN 1 ELSE EntryField(exp, ix - 1) + 1)

InitRecord ==
    /\ BYTES_BIG_ENDIAN \in BOOLEAN
    /\ NDEBUG \in BOOLEAN
    /\ flag_default_initialize_globals \in BOOLEAN
    /\ isBigEndianHost = FALSE
    /\ pc = "layout"
    /\ input \in [exp : LayoutExps]
    /\ acc = IntervalList(<<>>)
    /\ call = [op |-> "IntervalList", seeded |-> 0, ix |-> 0, added |-> 0,
               before |-> Null]

\* where a step that gave acc' leaves the conversion
AfterStep(new, to) ==
    IF IsFault(new) THEN "fault" ELSE IF IsBad(new) THEN "undefined" ELSE to

\* whether the loop of default initialization is over
Seeded ==
    \/ ~flag_default_initialize_globals
    \/ call.seeded = Len(TYPE_FIELDS(TREE_TYPE(input.exp)))

\* one field given its zero starting value
SeedField ==
    /\ pc = "layout"
    /\ ~Seeded
    /\ acc' = SeedOne(input.exp, call.seeded + 1, acc)
    /\ call' = [op |-> "Seed", seeded |-> call.seeded + 1, ix |-> 0,
                added |-> call.added + 1, before |-> acc]
    /\ pc' = AfterStep(acc', "layout")
    /\ UNCHANGED <<target, input>>

\* one entry of the constructor laid over what is there
OverlayField ==
    /\ pc = "layout"
    /\ Seeded
    /\ call.ix < Len(input.exp.elts)
    /\ acc' = OverlayOne(input.exp, call.ix + 1, acc)
    /\ call' = [op |-> "Overlay", seeded |-> call.seeded, ix |-> call.ix + 1,
                added |-> call.added + 1, before |-> acc]
    /\ pc' = AfterStep(acc', "layout")
    /\ UNCHANGED <<target, input>>

\* Layout.AlignBoundaries(BITS_PER_UNIT)
Snap ==
    /\ pc = "layout"
    /\ Seeded
    /\ call.ix = Len(input.exp.elts)
    /\ acc' = AlignBoundaries(acc, BITS_PER_UNIT)
    /\ call' = [call EXCEPT !.op = "AlignBoundaries", !.before = acc]
    /\ pc' = AfterStep(acc', "snapped")
    /\ UNCHANGED <<target, input>>

\* the struct returned
Emit ==
    /\ pc = "snapped"
    /\ acc' = StructOfLayout(input.exp, acc,
                             getTypeAllocSizeInBits(ConvertType(TREE_TYPE(input.exp))))
    /\ call' = [call EXCEPT !.op = "Emit", !.before = acc]
    /\ pc' = AfterStep(acc', "converted")
    /\ UNCHANGED <<target, input>>

NextRecord == SeedField \/ OverlayField \/ Snap \/ Emit

SpecRecord == InitRecord /\ [][NextRecord]_vars

\* the steps give what ConvertRecordCONSTRUCTOR gives
StepsAreTheConversion ==
    pc \in {"converted", "fault", "undefined"}
        => acc = ConvertRecordCONSTRUCTOR(input.exp)

-----------------------------------------------------------------------------
(* Bitfields of one byte *)

\* whether the entries of the constructor are two bitfields or more, all of
\* them within the byte that begins at bit B
BitfieldsOfByte(exp, B) ==
    /\ Len(exp.elts) >= 2
    /\ \A k \in 1..Len(exp.elts) :
          LET field == TYPE_FIELDS(TREE_TYPE(exp))[EntryField(exp, k)]
          IN  /\ isInt64(DECL_SIZE(field))
              /\ DECL_SIZE(field) < BITS_PER_UNIT
              /\ B <= getFieldOffsetInBits(field)
              /\ getFieldOffsetInBits(field) + DECL_SIZE(field) <= B + BITS_PER_UNIT

\* the values of the entries k.., each shifted left by the offset of its
\* field in the byte, or'ed: the fields being disjoint the or is the sum
RECURSIVE ShiftedOr(_, _, _)
ShiftedOr(exp, k, B) ==
    IF k > Len(exp.elts) THEN 0
    ELSE LET field == TYPE_FIELDS(TREE_TYPE(exp))[EntryField(exp, k)]
         IN  LayoutNumber(field, EntryField(exp, k))
                 * 2 ^ (getFieldOffsetInBits(field) - B)
               + ShiftedOr(exp, k + 1, B)

\* the element of a struct that begins at bit B, or Null
ElementAt(C, B) ==
    LET i == FieldAt(C.ty, B)
    IN  IF i # 0 /\ getElementOffsetInBits(C.ty, i - 1) = B THEN C.elts[i] ELSE Null

\* whether the constant is an integer stored in one byte, of value n
IsByteOfValue(C, n) ==
    /\ C # Null
    /\ C.ty.id = "Integer"
    /\ getTypeAllocSizeInBits(C.ty) = BITS_PER_UNIT
    /\ ~C.undef
    /\ BitsToNat(C.bits) = n

\* C11: on a little-endian target a constructor that initializes bitfields
\* at disjoint ranges of one byte gives that byte as one integer element
\* stored in one byte, whose value is the or of the values of the fields,
\* each shifted left by its offset in the byte
C11_BitfieldsShareAByte ==
    \A B \in {0, BITS_PER_UNIT} :
        (/\ pc \in {"converted", "fault", "undefined"}
         /\ ~BYTES_BIG_ENDIAN
         /\ BitfieldsOfByte(input.exp, B))
            => /\ pc = "converted"
               /\ IsByteOfValue(ElementAt(acc, B), ShiftedOr(input.exp, 1, B))

\* the scenario of the claim: a 3-bit field at bit 0 holding 5 and a 5-bit
\* field at bit 3 holding 17 have given the byte 141
C11_Witness ==
    /\ pc = "converted"
    /\ ~BYTES_BIG_ENDIAN
    /\ TREE_TYPE(input.exp) = rec_bits
    /\ BitfieldsOfByte(input.exp, 0)
    /\ ShiftedOr(input.exp, 1, 0) = 141
    /\ acc.elts = <<ConstantInt(8, NatToBits(141, 8))>>

\* bitfields of the second byte of a record, with a gap between them
C11_WitnessGap ==
    /\ pc = "converted"
    /\ ~BYTES_BIG_ENDIAN
    /\ ~flag_default_initialize_globals
    /\ TREE_TYPE(input.exp) = rec_a_xyz
    /\ BitfieldsOfByte(input.exp, BITS_PER_UNIT)
    /\ EntryField(input.exp, 1) = 4
    /\ EntryField(input.exp, 2) = 2

-----------------------------------------------------------------------------
(* The IntervalList of ConvertRecordCONSTRUCTOR given any intervals: ranges *)
(* that overlap one another in every way, in any order.                    *)

\* the intervals added are at most MaxInsertions, with their boundaries
\* among LayoutBits
MaxInsertions == 3
LayoutBits == {0, 3, 8, 11, 24, 32}

\* union { unsigned char a; unsigned int c; }
union_a_c ==
    UNION_TYPE(<<FIELD_DECL(uchar, 0, 8), FIELD_DECL(uint, 0, 32)>>, 32, 32,
               StructType(<<I32>>, FALSE))

\* the integers an interval of Width bits may hold
LayoutContents(Width) ==
    {ConstantInt(Width, Ones(Width)),
     ConstantInt(Width, [i \in 1..Width |-> i % 2])}

InitLayout ==
    /\ BYTES_BIG_ENDIAN \in BOOLEAN
    /\ NDEBUG \in BOOLEAN
    /\ flag_default_initialize_globals = FALSE
    /\ isBigEndianHost = FALSE
    /\ pc = "layout"
    /\ input = [exp |-> CONSTRUCTOR(union_a_c, <<>>)]
    /\ acc = IntervalList(<<>>)
    /\ call = [op |-> "IntervalList", seeded |-> 0, ix |-> 0, added |-> 0,
               before |-> Null]

\* Layout.AddInterval(FieldContents::get(First, Last, C))
Insert ==
    /\ pc = "layout"
    /\ call.added < MaxInsertions
    /\ \E First \in LayoutBits, Last \in LayoutBits :
          /\ First < Last
          /\ \E C \in LayoutContents(Last - First) :
                acc' = AddInterval(acc, FieldContents_get(First, Last, C))
    /\ call' = [call EXCEPT !.op = "AddInterval", !.added = call.added + 1,
                            !.before = acc]
    /\ pc' = AfterStep(acc', "layout")
    /\ UNCHANGED <<target, input>>

NextLayout == Insert \/ Snap \/ Emit

SpecLayout == InitLayout /\ [][NextLayout]_vars

\* whether the intervals are not empty, ordered by their first bit and
\* pairwise disjoint
IsOrdered(Layout) ==
    /\ \A i \in 1..Len(Layout.Intervals) : ~REmpty(Layout.Intervals[i].R)
    /\ \A i, j \in 1..Len(Layout.Intervals) :
          i < j => Layout.Intervals[i].R.Last <= Layout.Intervals[j].R.First

\* whether no element made of an interval of the layout ends after the
\* first bit of the next interval
NoElementOverlapsTheNext(Layout) ==
    \A i \in 1..(Len(Layout.Intervals) - 1) :
        Layout.Intervals[i].R.First
            + getTypeAllocSizeInBits(extractContents(Layout.Intervals[i]).ty)
          <= Layout.Intervals[i + 1].R.First

\* C12: whatever intervals are added, in whatever order, the layout holds
\* intervals that are pairwise disjoint and ordered by their first bit, and
\* when the struct is made of them no element ends after the first bit of
\* the next interval (the assertion "Previous field overlaps this one!"
\* holds)
C12_IntervalsStayDisjoint ==
    /\ pc \notin {"fault", "undefined"}
    /\ pc \in {"layout", "snapped"} => IsOrdered(acc)
    /\ pc = "converted" => NoElementOverlapsTheNext(call.before)

\* three intervals were added, the last one over parts of the two before
\* it, and the struct was made
C12_Witness ==
    /\ pc = "converted"
    /\ call.added = 3
    /\ Len(call.before.Intervals) >= 2
    /\ NoElementOverlapsTheNext(call.before)

\* an interval was added over a part of one interval and the whole of
\* another
C12_WitnessOverlap ==
    /\ pc = "layout"
    /\ call.op = "AddInterval"
    /\ Len(call.before.Intervals) = 2
    /\ call.before.Intervals[1].R = Range(0, 8)
    /\ call.before.Intervals[2].R = Range(8, 11)
    /\ Len(acc.Intervals) = 1
    /\ acc.Intervals[1].R = Range(0, 24)

-----------------------------------------------------------------------------
(* A BitSlice under any sequence of its operations. *)

\* the operations applied to a slice after its construction are at most
\* MaxOps
MaxOps == 3

ValidSlices == {x \in SampleSlices : contentsValid(x.R, x.Contents)}

InitSlice ==
    /\ BYTES_BIG_ENDIAN \in BOOLEAN
    /\ NDEBUG \in BOOLEAN
    /\ flag_default_initialize_globals = TRUE
    /\ isBigEndianHost = FALSE
    /\ pc = "start"
    /\ input = Null
    /\ acc = Null
    /\ call = [op |-> "none", n |-> 0]

\* where the operation that gave acc' leaves the slice
AfterOp(new) ==
    IF IsFault(new) THEN "fault" ELSE IF IsBad(new) THEN "undefined" ELSE "slice"

\* BitSlice(r, contents), with contents that match the range
ConstructSlice ==
    /\ pc = "start"
    /\ \E S \in ValidSlices : acc' = BitSlice(S.R, S.Contents)
    /\ call' = [op |-> "BitSlice", n |-> 0]
    /\ pc' = AfterOp(acc')
    /\ UNCHANGED <<target, input>>

\* .Displace(Offset)
DisplaceSlice ==
    /\ pc = "slice"
    /\ call.n < MaxOps
    /\ \E Offset \in {0 - 2, 0 - 1, 1, 2} : acc' = Displace(acc, Offset)
    /\ call' = [op |-> "Displace", n |-> call.n + 1]
    /\ pc' = AfterOp(acc')
    /\ UNCHANGED <<target, input>>

\* .ExtendRange(r), r containing the range of the slice
ExtendSlice ==
    /\ pc = "slice"
    /\ call.n < MaxOps
    /\ \E r \in ArgRanges :
          /\ RContains(r, acc.R)
          /\ acc' = ExtendRange(acc, r)
    /\ call' = [op |-> "ExtendRange", n |-> call.n + 1]
    /\ pc' = AfterOp(acc')
    /\ UNCHANGED <<target, input>>

\* .ReduceRange(r), r contained in the range of the slice
ReduceSlice ==
    /\ pc = "slice"
    /\ call.n < MaxOps
    /\ \E r \in ArgRanges :
          /\ RContains(acc.R, r)
          /\ acc' = ReduceRange(acc, r)
    /\ call' = [op |-> "ReduceRange", n |-> call.n + 1]
    /\ pc' = AfterOp(acc')
    /\ UNCHANGED <<target, input>>

\* .Merge(other), other disjoint from the slice
MergeSlice ==
    /\ pc = "slice"
    /\ call.n < MaxOps
    /\ \E other \in ValidSlices :
          /\ ~RIntersects(acc.R, other.R)
          /\ acc' = Merge(acc, other)
    /\ call' = [op |-> "Merge", n |-> call.n + 1]
    /\ pc' = AfterOp(acc')
    /\ UNCHANGED <<target, input>>

NextSlice ==
    ConstructSlice \/ DisplaceSlice \/ ExtendSlice \/ ReduceSlice \/ MergeSlice

SpecSlice == InitSlice /\ [][NextSlice]_vars

\* C13: every slice reached by a construction followed by any Displace,
\* ExtendRange, ReduceRange and Merge whose preconditions hold has no
\* contents exactly when its range is empty, and otherwise an integer
\* constant as wide as the range
C13_ContentsMatchRange ==
    /\ pc \notin {"fault", "undefined"}
    /\ pc = "slice" =>
          /\ (acc.Contents = Null) <=> REmpty(acc.R)
          /\ ~REmpty(acc.R) =>
                /\ acc.Contents.ty.id = "Integer"
                /\ acc.Contents.ty.w = RWidth(acc.R)
                /\ Len(acc.Contents.bits) = RWidth(acc.R)

\* a slice that is not empty after MaxOps operations, the last a
\* ReduceRange
C13_Witness ==
    /\ pc = "slice"
    /\ call.n = MaxOps
    /\ call.op = "ReduceRange"
    /\ ~REmpty(acc.R)
    /\ acc.Contents.ty.w = RWidth(acc.R)

\* a slice reduced to nothing
C13_WitnessEmpty ==
    /\ pc = "slice"
    /\ call.op = "ReduceRange"
    /\ REmpty(acc.R)
    /\ acc.Contents = Null

-----------------------------------------------------------------------------
(* AddressOfCST: the addresses of literal constants, in one process. *)

\* new GlobalVariable(*TheModule, Init->getType(), true, PrivateLinkage,
\* Init, ".cst"): the n-th global variable of the module
GlobalVariable(n, Init, align) ==
    [name |-> ".cst", n |-> n, init |-> Init, align |-> align]

\* CSTCache[Init], or Null when the map has no slot for Init
CachedSlot(CSTCache, Init) ==
    IF \E k \in 1..Len(CSTCache) : CSTCache[k].key = Init
    THEN CSTCache[CHOOSE k \in 1..Len(CSTCache) : CSTCache[k].key = Init].slot
    ELSE Null

\* AddressOfCST with a cache that makes a new global variable at every
\* request
AddressOfCST_Uncached(exp, CSTCache, Globals) ==
    Try(ConvertInitializer(exp), LAMBDA Init :
        With(GlobalVariable(Len(Globals) + 1, Init, TYPE_ALIGN(TREE_TYPE(exp))),
             LAMBDA New :
                 [Addr |-> New,
                  CSTCache |-> Append(SelectSeq(CSTCache,
                                                LAMBDA e : e.key # Init),
                                      [key |-> Init, slot |-> New]),
                  Globals |-> Append(Globals, New)]))

\* AddressOfCST(exp): the address returned, the cache and the global
\* variables of the module after the call
AddressOfCST(exp, CSTCache, Globals) ==
    Try(ConvertInitializer(exp), LAMBDA Init :
    With(CachedSlot(CSTCache, Init), LAMBDA Slot :
        IF Slot # Null
        THEN [Addr |-> Slot, CSTCache |-> CSTCache, Globals |-> Globals]
        ELSE With(GlobalVariable(Len(Globals) + 1, Init,
                                 TYPE_ALIGN(TREE_TYPE(exp))),
                  LAMBDA New :
                      [Addr |-> New,
                       CSTCache |-> Append(CSTCache, [key |-> Init, slot |-> New]),
                       Globals |-> Append(Globals, New)])))

\* the requests of one process are at most MaxRequests
MaxRequests == 3

\* unsigned char of a typedef with __attribute__((aligned(16)))
uchar_aligned16 == INTEGER_TYPE(8, 8, 128, TRUE)

\* the literal constants whose address is taken
LiteralExps ==
    {IntCst(uchar, 165), IntCst(schar, 165), IntCst(ushort, 165),
     IntCst(uchar_aligned16, 165),
     IntCst(ushort, 258), INTEGER_CST(uint, C01020304.bits),
     STRING_CST(uchar4, Chars(<<97, 98>>)),
     STRING_CST(uchar4, Chars(<<97, 98, 0, 0>>)),
     STRING_CST(ushort2, Chars(<<1, 2, 3, 4>>))}

\* acc is the process: CSTCache and the global variables of the module;
\* call.log lists the requests made, each with the constant converted and
\* the address returned
InitCST ==
    /\ BYTES_BIG_ENDIAN \in BOOLEAN
    /\ NDEBUG \in BOOLEAN
    /\ flag_default_initialize_globals = TRUE
    /\ isBigEndianHost \in BOOLEAN
    /\ pc = "ready"
    /\ input = Null
    /\ acc = [CSTCache |-> <<>>, Globals |-> <<>>]
    /\ call = [op |-> "none", log |-> <<>>]

\* AddressOf(exp) for a literal constant exp
TakeAddress ==
    /\ pc = "ready"
    /\ Len(call.log) < MaxRequests
    /\ \E exp \in LiteralExps :
          With(AddressOfCST(exp, acc.CSTCache, acc.Globals), LAMBDA Done :
              IF IsBad(Done)
              THEN /\ pc' = (IF IsFault(Done) THEN "fault" ELSE "undefined")
                   /\ acc' = acc
                   /\ call' = [call EXCEPT !.op = "AddressOfCST"]
              ELSE /\ pc' = "ready"
                   /\ acc' = [CSTCache |-> Done.CSTCache, Globals |-> Done.Globals]
                   /\ call' = [op |-> "AddressOfCST",
                               log |-> Append(call.log,
                                              [exp |-> exp,
                                               init |-> ConvertInitializer(exp),
                                               addr |-> Done.Addr])])
    /\ UNCHANGED <<target, input>>

NextCST == TakeAddress

SpecCST == InitCST /\ [][NextCST]_vars

\* requests of one constant were given one slot and requests of different
\* constants different slots, and the module has one slot for each constant
\* requested
OneSlotPerConstant ==
    /\ \A i, j \in 1..Len(call.log) :
          (call.log[i].init = call.log[j].init)
              <=> (call.log[i].addr = call.log[j].addr)
    /\ Len(acc.Globals) = Cardinality({call.log[i].init : i \in 1..Len(call.log)})
    /\ \A i, j \in 1..Len(acc.Globals) :
          i # j => acc.Globals[i] # acc.Globals[j]

\* a step leaves every slot of the cache where it is
CacheGrows ==
    \A k \in 1..Len(acc.CSTCache) :
        /\ k <= Len(acc'.CSTCache)
        /\ acc'.CSTCache[k] = acc.CSTCache[k]

\* C14: at every moment the requests made so far for one constant have
\* returned one slot and the requests for different constants different
\* slots, with one slot created for each constant; and no step ever
\* removes or replaces a slot of the cache
C14_OneSlotForever == [](OneSlotPerConstant) /\ [][CacheGrows]_vars

\* the addresses of (unsigned char)165, of (signed char)165 and of a third
\* constant were taken: two slots, the first two requests sharing one
C14_Witness ==
    /\ Len(call.log) = 3
    /\ call.log[1].exp # call.log[2].exp
    /\ call.log[1].init = call.log[2].init
    /\ call.log[1].addr = call.log[2].addr
    /\ call.log[3].addr # call.log[1].addr
    /\ Len(acc.Globals) = 2

-----------------------------------------------------------------------------
(* The conversions given what they support and what they do not. *)

\* an expression of a kind no conversion knows
COND_EXPR(type) == [code |-> "COND_EXPR", type |-> type]

UnsupportedExps ==
    {COND_EXPR(uint),
     ADDR_EXPR(POINTER_TYPE, COND_EXPR(uint)),
     NOP_EXPR(uint, COND_EXPR(uint)),
     CONSTRUCTOR(uint, <<CONSTRUCTOR_ELT(Null, IntCst(uint, 1))>>),
     CONSTRUCTOR(uchar4, <<CONSTRUCTOR_ELT(INDEX(1), COND_EXPR(uchar))>>),
     CONSTRUCTOR(rec_a_b, <<CONSTRUCTOR_ELT(FIELD(1), IntCst(uchar, 5)),
                            CONSTRUCTOR_ELT(FIELD(2), COND_EXPR(ushort))>>)}

\* types with a part of a kind that ViewAsBits and InterpretAsType do not
\* handle
UnsupportedTypes ==
    {LabelTy, ArrayType(LabelTy, 2), StructType(<<I8, LabelTy>>, FALSE)}

\* whether a conversion of the model is given something unsupported
RECURSIVE HasUnsupportedPart(_)
HasUnsupportedPart(exp) ==
    \/ TREE_CODE(exp) = "COND_EXPR"
    \/ TREE_CODE(exp) \in {"ADDR_EXPR", "NOP_EXPR"} /\ HasUnsupportedPart(exp.op)
    \/ /\ TREE_CODE(exp) = "CONSTRUCTOR"
       /\ Len(exp.elts) > 0
       /\ \/ TREE_CODE(TREE_TYPE(exp))
                \notin {"VECTOR_TYPE", "ARRAY_TYPE", "QUAL_UNION_TYPE",
                         "RECORD_TYPE", "UNION_TYPE"}
          \/ \E k \in 1..Len(exp.elts) : HasUnsupportedPart(exp.elts[k].value)

AbortInputs ==
    [op : {"ConvertInitializer"}, exp : ConvertExps \cup UnsupportedExps]
      \cup [op : {"AddressOf"}, exp : {aVariable, COND_EXPR(uint)}]
      \cup [op : {"ConvertCONSTRUCTOR"},
            exp : {e \in RecordExps \cup UnsupportedExps \cup {CONSTRUCTOR(uint, <<>>)} :
                      TREE_CODE(e) = "CONSTRUCTOR"}]
      \cup [op : {"InterpretAsType"}, C : SampleConstants,
            Ty : SampleTypes \cup UnsupportedTypes, StartingBit : {0, 8}]
      \cup [op : {"ViewAsBits"}, C : SampleConstants,
            R : {Range(0, 8), Range(4, 12), Range(8, 32), Range(8, 8)}]

InitAbort ==
    /\ BYTES_BIG_ENDIAN \in BOOLEAN
    /\ NDEBUG \in BOOLEAN
    /\ flag_default_initialize_globals \in BOOLEAN
    /\ isBigEndianHost = FALSE
    /\ pc = "start"
    /\ input \in AbortInputs
    /\ acc = Null
    /\ call = Null

\* where the call that gave acc' leaves the process
Returned(new, op) ==
    /\ call' = [op |-> op]
    /\ pc' = IF IsFault(new) THEN "fault"
             ELSE IF IsBad(new) THEN "undefined"
             ELSE "returned"
    /\ UNCHANGED <<target, input>>

CallConvertInitializer ==
    /\ pc = "start"
    /\ input.op = "ConvertInitializer"
    /\ acc' = ConvertInitializer(input.exp)
    /\ Returned(acc', input.op)

CallAddressOf ==
    /\ pc = "start"
    /\ input.op = "AddressOf"
    /\ acc' = AddressOf(input.exp)
    /\ Returned(acc', input.op)

CallConvertCONSTRUCTOR ==
    /\ pc = "start"
    /\ input.op = "ConvertCONSTRUCTOR"
    /\ acc' = ConvertCONSTRUCTOR(input.exp)
    /\ Returned(acc', input.op)

CallInterpretAsType ==
    /\ pc = "start"
    /\ input.op = "InterpretAsType"
    /\ acc' = InterpretAsType(input.C, input.Ty, input.StartingBit)
    /\ Returned(acc', input.op)

CallViewAsBits ==
    /\ pc = "start"
    /\ input.op = "ViewAsBits"
    /\ acc' = ViewAsBits(input.C, input.R)
    /\ Returned(acc', input.op)

NextAbort ==
    \/ CallConvertInitializer
    \/ CallAddressOf
    \/ CallConvertCONSTRUCTOR
    \/ CallInterpretAsType
    \/ CallViewAsBits

SpecAbort == InitAbort /\ [][NextAbort]_vars

\* whether C is a constant whole: a type, and the bits or the elements
\* that the type asks for, each whole
RECURSIVE IsWhole(_)
IsWhole(C) ==
    /\ DOMAIN C \in {{"ty", "bits", "undef"}, {"ty", "elts"}}
    /\ IF IsScalarTy(C.ty)
       THEN /\ DOMAIN C = {"ty", "bits", "undef"}
            /\ Len(C.bits) = getTypeSizeInBits(C.ty)
            /\ C.undef \in BOOLEAN
       ELSE /\ IsAggregateTy(C.ty)
            /\ DOMAIN C = {"ty", "elts"}
            /\ Len(C.elts) = (IF C.ty.id = "Struct" THEN Len(C.ty.flds) ELSE C.ty.n)
            /\ \A i \in 1..Len(C.elts) :
                  /\ IsWhole(C.elts[i])
                  /\ C.elts[i].ty
                       = (IF C.ty.id = "Struct" THEN C.ty.flds[i] ELSE C.ty.elt)

\* whether the call was given an expression or a type it does not support
Unsupported ==
    IF input.op \in {"ConvertInitializer", "ConvertCONSTRUCTOR"}
    THEN HasUnsupportedPart(input.exp)
    ELSE IF input.op = "AddressOf" THEN TREE_CODE(input.exp) = "COND_EXPR"
    ELSE IF input.op = "InterpretAsType"
    THEN input.Ty \in UnsupportedTypes /\ input.C.ty # input.Ty
    ELSE FALSE

C15_WitnessConstructor ==
    /\ pc = "fault"
    /\ input.op = "ConvertCONSTRUCTOR"
    /\ TREE_TYPE(input.exp) = uint
    /\ Len(input.exp.elts) = 1

\* a struct with a field of an unknown kind was asked for and the call
\* aborted
C15_WitnessType ==
    /\ pc = "fault"
    /\ input.op = "InterpretAsType"
    /\ input.Ty = StructType(<<I8, LabelTy>>, FALSE)

\* a whole constant was returned
C15_WitnessWhole ==
    /\ pc = "returned"
    /\ input.op = "ConvertInitializer"
    /\ TREE_CODE(input.exp) = "CONSTRUCTOR"
    /\ IsWhole(acc)
    /\ acc.ty.id = "Struct"

-----------------------------------------------------------------------------
(* String literals of 8, 16 and 32 bit elements. *)

\* unsigned int [2]
uint2x == ARRAY_TYPE(uint, 0, 2, 32)

\* the bytes a literal is made of, and the sequences of n of them
StringBytes == {1, 2, 100}
RECURSIVE BytesOfLength(_, _)
BytesOfLength(S, n) ==
    IF n = 0 THEN {<<>>}
    ELSE {Append(q, x) : q \in BytesOfLength(S, n - 1), x \in S}

\* literals as long as their type, shorter and longer, each a whole number
\* of elements
StringLiterals ==
    {STRING_CST(type, Chars(q)) :
        type \in {uchar4, ushort2},
        q \in BytesOfLength(StringBytes, 2) \cup BytesOfLength(StringBytes, 4)}
      \cup {STRING_CST(ushort2, Chars(q \o <<3, 4>>)) :
               q \in BytesOfLength(StringBytes, 4)}
      \cup {STRING_CST(uint2x, Chars(q)) :
               q \in BytesOfLength(StringBytes, 4)
                        \cup BytesOfLength({1, 100}, 8)}

InitString ==
    /\ BYTES_BIG_ENDIAN \in BOOLEAN
    /\ NDEBUG \in BOOLEAN
    /\ flag_default_initialize_globals = TRUE
    /\ isBigEndianHost \in BOOLEAN
    /\ pc = "start"
    /\ input \in [exp : StringLiterals]
    /\ acc = Null
    /\ call = Null

NextString == Convert

SpecString == InitString /\ [][NextString]_vars

\* the bytes of an element of the literal
ElementBytes == TYPE_SIZE(TREE_TYPE(TREE_TYPE(input.exp))) \div CHAR_BIT

\* element i of the raw input as the host reads it from memory: byte k of
\* the element is the k-th least significant byte on a little-endian host
\* and the k-th most significant one on a big-endian host
RECURSIVE RawElement(_, _, _)
RawElement(i, n, k) ==
    IF k >= n THEN 0
    ELSE BitsToNat(input.exp.str[n * i + k + 1])
             * 256 ^ (IF isBigEndianHost THEN n - 1 - k ELSE k)
           + RawElement(i, n, k + 1)

\* ByteSwap_16 / ByteSwap_32 of v, an integer of n bytes
RECURSIVE ByteSwapped(_, _)
ByteSwapped(v, n) ==
    IF n = 0 THEN 0
    ELSE (v % 256) * 256 ^ (n - 1) + ByteSwapped(v \div 256, n - 1)

\* the elements that the literal and the constant both have
CommonElements ==
    0..(Min(Len(acc.elts), Len(input.exp.str) \div ElementBytes) - 1)

\* C16: every element of the constant made of a string literal of 16 or
\* 32 bit elements is the raw element byte-swapped when the byte order of
\* the host is not that of the target and the raw element itself when it
\* is; an element of 8 bits is the raw byte on every host
C16_SwappedWhenOrdersDiffer ==
    /\ pc \notin {"fault", "undefined"}
    /\ pc = "converted" =>
          \A i \in CommonElements :
              /\ acc.elts[i + 1].ty = IntegerType(8 * ElementBytes)
              /\ ~acc.elts[i + 1].undef
              /\ BitsToNat(acc.elts[i + 1].bits)
                    = IF ElementBytes > 1 /\ isBigEndianHost # BYTES_BIG_ENDIAN
                      THEN ByteSwapped(RawElement(i, ElementBytes, 0), ElementBytes)
                      ELSE RawElement(i, ElementBytes, 0)

\* a literal of two 32 bit elements converted on a host whose byte order
\* is not the target's, the elements differing from their swapped forms
C16_Witness ==
    /\ pc = "converted"
    /\ isBigEndianHost # BYTES_BIG_ENDIAN
    /\ ElementBytes = 4
    /\ CommonElements = {0, 1}
    /\ \A i \in CommonElements :
          /\ ByteSwapped(RawElement(i, 4, 0), 4) # RawElement(i, 4, 0)
          /\ BitsToNat(acc.elts[i + 1].bits) = ByteSwapped(RawElement(i, 4, 0), 4)

\* the bytes 1, 2 of a literal of 16 bit elements, read as 513 by a
\* little-endian host, have given 258 for a big-endian target
C16_WitnessSwap16 ==
    /\ pc = "converted"
    /\ ~isBigEndianHost
    /\ BYTES_BIG_ENDIAN
    /\ ElementBytes = 2
    /\ RawElement(0, 2, 0) = 513
    /\ BitsToNat(acc.elts[1].bits) = 258

-----------------------------------------------------------------------------
(* Default initialization of a record and the entries laid over it. *)

\* whether every field of the record has a position and a size
FieldsAreSized(type) ==
    \A n \in 1..Len(TYPE_FIELDS(type)) :
        /\ OffsetIsLLVMCompatible(TYPE_FIELDS(type)[n])
        /\ isInt64(DECL_SIZE(TYPE_FIELDS(type)[n]))

\* the entry of the constructor that initializes field n, or 0
EntryOfField(exp, n) ==
    IF \E k \in 1..Len(exp.elts) : EntryField(exp, k) = n
    THEN CHOOSE k \in 1..Len(exp.elts) : EntryField(exp, k) = n
    ELSE 0

\* bit p of the memory of a record built by exp, p a bit of field n: a bit
\* of the value given to the field, the least significant one first on a
\* little-endian target and last on a big-endian one, or zero when the
\* field is given no value
FieldBit(exp, n, p) ==
    LET field == TYPE_FIELDS(TREE_TYPE(exp))[n]
        j == p - getFieldOffsetInBits(field)
    IN  IF EntryOfField(exp, n) = 0 THEN 0
        ELSE (LayoutNumber(field, n)
                \div 2 ^ (IF BYTES_BIG_ENDIAN THEN DECL_SIZE(field) - 1 - j ELSE j))
               % 2

\* whether every bit of every field of the record is what FieldBit says
FieldsHoldTheirValues(exp, C) ==
    \A n \in 1..Len(TYPE_FIELDS(TREE_TYPE(exp))) :
        LET field == TYPE_FIELDS(TREE_TYPE(exp))[n]
        IN  \A p \in getFieldOffsetInBits(field)
                       ..(getFieldOffsetInBits(field) + DECL_SIZE(field) - 1) :
                ImageBit(C, p) = FieldBit(exp, n, p)

\* the case of C17: default initialization, a record with non-overlapping
\* fields of known position and size
C17_Case ==
    /\ flag_default_initialize_globals
    /\ TREE_TYPE(input.exp) \in StructTypes
    /\ FieldsAreSized(TREE_TYPE(input.exp))

\* C17: with default initialization, for a record whose fields have a
\* known position and size, no step of the conversion faults, and in the
\* struct returned every bit of a field with an entry holds the entry's
\* value and every bit of a field without one is zero, whatever the order
\* of the entries
C17_SeededThenOverlaid ==
    C17_Case =>
        /\ pc \notin {"fault", "undefined"}
        /\ pc = "converted" => FieldsHoldTheirValues(input.exp, acc)

\* the same on a little-endian target
C17_SeededThenOverlaidLittleEndian ==
    (C17_Case /\ ~BYTES_BIG_ENDIAN) =>
        /\ pc \notin {"fault", "undefined"}
        /\ pc = "converted" => FieldsHoldTheirValues(input.exp, acc)

-----------------------------------------------------------------------------
(* The snap to byte boundaries *)

\* the interval of the layout that covers bit p, or 0
Coverer(Layout, p) ==
    LET S == {i \in 1..Len(Layout.Intervals) :
                 /\ Layout.Intervals[i].R.First <= p
                 /\ p < Layout.Intervals[i].R.Last}
    IN  IF S = {} THEN 0 ELSE CHOOSE i \in S : TRUE

\* how many intervals of the layout cover bit p
Coverers(Layout, p) ==
    Cardinality({i \in 1..Len(Layout.Intervals) :
                    /\ Layout.Intervals[i].R.First <= p
                    /\ p < Layout.Intervals[i].R.Last})

\* bit p of the record as the interval F holds it: the bit of getAsBits
\* that a BitSlice over the range of F places at p, the least significant
\* bit of the integer first on a little-endian target and its most
\* significant bit first on a big-endian one
BitOfInterval(F, p) ==
    Try(getAsBits(F), LAMBDA Bits :
        IF Bits.undef THEN U
        ELSE Bits.bits[IF BYTES_BIG_ENDIAN THEN F.R.Last - p
                       ELSE p - F.R.First + 1])

\* whether every interval gives its bits as an integer
GivesItsBits(Layout) ==
    \A i \in 1..Len(Layout.Intervals) : ~IsBad(getAsBits(Layout.Intervals[i]))

\* the bits of the record that a layout may cover
RecordBits(Layout) ==
    IF Len(Layout.Intervals) = 0 THEN {}
    ELSE 0..(Layout.Intervals[Len(Layout.Intervals)].R.Last - 1)

\* whether every interval begins and ends on a byte boundary
OnByteBoundaries(Layout) ==
    \A i \in 1..Len(Layout.Intervals) :
        /\ Layout.Intervals[i].R.First % BITS_PER_UNIT = 0
        /\ Layout.Intervals[i].R.Last % BITS_PER_UNIT = 0

\* whether every bit that Before covers is covered by exactly one interval
\* of After, with the value it has in Before
KeepsEveryBit(Before, After) ==
    \A p \in RecordBits(Before) :
        Coverer(Before, p) # 0 =>
            /\ Coverers(After, p) = 1
            /\ BitOfInterval(After.Intervals[Coverer(After, p)], p)
                 = BitOfInterval(Before.Intervals[Coverer(Before, p)], p)

\* whether two ranges have bits in one byte
ShareAByte(r, s) ==
    \E B \in (r.First \div BITS_PER_UNIT)..((r.Last - 1) \div BITS_PER_UNIT) :
        s.First \div BITS_PER_UNIT <= B /\ B <= (s.Last - 1) \div BITS_PER_UNIT

\* whether the intervals of Before that share a byte lie in one interval of
\* After
SharersAreOne(Before, After) ==
    \A i, j \in 1..Len(Before.Intervals) :
        ShareAByte(Before.Intervals[i].R, Before.Intervals[j].R) =>
            Coverer(After, Before.Intervals[i].R.First)
              = Coverer(After, Before.Intervals[j].R.First)

\* whether the snap has just been done
JustSnapped == pc = "snapped" /\ call.op = "AlignBoundaries"

\* C18: after the snap to byte boundaries every interval begins and ends on
\* a multiple of 8, the intervals are ordered and pairwise disjoint, every
\* bit covered before the snap is covered by exactly one interval and has
\* the value it had, and the intervals that shared a byte are one interval;
\* neither the snap nor the making of the struct after it fails an
\* assertion
C18_SnapToBytes ==
    /\ pc \notin {"fault", "undefined"}
    /\ JustSnapped =>
          /\ OnByteBoundaries(acc)
          /\ IsOrdered(acc)
          /\ GivesItsBits(call.before)
          /\ GivesItsBits(acc)
          /\ KeepsEveryBit(call.before, acc)
          /\ SharersAreOne(call.before, acc)

\* the same on a little-endian target
C18_SnapToBytesLittleEndian ==
    /\ pc \notin {"fault", "undefined"}
    /\ (JustSnapped /\ ~BYTES_BIG_ENDIAN) =>
          /\ OnByteBoundaries(acc)
          /\ IsOrdered(acc)
          /\ GivesItsBits(call.before)
          /\ GivesItsBits(acc)
          /\ KeepsEveryBit(call.before, acc)
          /\ SharersAreOne(call.before, acc)

\* on either byte order, all of it but the values of the bits
C18_SnapToBytesButValues ==
    /\ pc \notin {"fault", "undefined"}
    /\ JustSnapped =>
          /\ OnByteBoundaries(acc)
          /\ IsOrdered(acc)
          /\ GivesItsBits(call.before)
          /\ GivesItsBits(acc)
          /\ \A p \in RecordBits(call.before) :
                Coverer(call.before, p) # 0 => Coverers(acc, p) = 1
          /\ SharersAreOne(call.before, acc)

\* two intervals that end and begin within the first byte were made one,
\* and an interval of three bits alone in its byte was widened to the byte
C18_Witness ==
    /\ JustSnapped
    /\ Len(call.before.Intervals) = 3
    /\ call.before.Intervals[1].R = Range(0, 3)
    /\ call.before.Intervals[2].R = Range(3, 8)
    /\ call.before.Intervals[3].R = Range(8, 11)
    /\ Len(acc.Intervals) = 2
    /\ acc.Intervals[1].R = Range(0, 8)
    /\ acc.Intervals[2].R = Range(8, 16)

\* the struct was made of intervals that the snap had joined across bytes
C18_WitnessEmitted ==
    /\ pc = "converted"
    /\ Len(call.before.Intervals) = 1
    /\ call.before.Intervals[1].R = Range(0, 32)
    /\ call.added = 3
    /\ acc.ty.flds = <<I32>>

-----------------------------------------------------------------------------
(* Packed or not *)

\* the natural alignment, in bits, of the value extracted from an interval
NaturalAlignment(F) == getABITypeAlignment(extractContents(F).ty) * 8

\* whether the value of some interval is more aligned than the record type
OverAligned(exp, Layout) ==
    \E i \in 1..Len(Layout.Intervals) :
        NaturalAlignment(Layout.Intervals[i]) > TYPE_ALIGN(TREE_TYPE(exp))

\* whether some interval begins where the alignment of its value does not
\* let it begin
Misplaced(Layout) ==
    \E i \in 1..Len(Layout.Intervals) :
        Layout.Intervals[i].R.First % NaturalAlignment(Layout.Intervals[i]) # 0

\* C19: the struct returned for a record constructor is packed if and only
\* if the value extracted from some interval of the snapped layout has a
\* natural alignment that exceeds the alignment of the record type or that
\* does not divide the first bit of the interval; otherwise the struct is
\* not packed
C19_PackedIffNeeded ==
    pc = "converted" =>
        (acc.ty.packed <=> (OverAligned(input.exp, call.before)
                              \/ Misplaced(call.before)))

\* a packed struct returned only because a value would begin after its
\* place: the 16-bit field at bit 8 of a record aligned to 16 bits
C19_Witness ==
    /\ pc = "converted"
    /\ acc.ty.packed
    /\ Misplaced(call.before)
    /\ ~OverAligned(input.exp, call.before)

\* a packed struct returned only because a value is more aligned than the
\* record
C19_WitnessOverAligned ==
    /\ pc = "converted"
    /\ acc.ty.packed
    /\ ~Misplaced(call.before)
    /\ OverAligned(input.exp, call.before)

\* a struct of two values or more that is not packed
C19_WitnessNatural ==
    /\ pc = "converted"
    /\ ~acc.ty.packed
    /\ Len(call.before.Intervals) >= 2
    /\ \E i \in 1..Len(call.before.Intervals) :
          NaturalAlignment(call.before.Intervals[i]) > BITS_PER_UNIT

-----------------------------------------------------------------------------
(* The elements of the struct *)

\* the value extracted from interval i of the layout
ValueOf(Layout, i) == extractContents(Layout.Intervals[i])

\* the first bit after the value of the interval before interval i
EndBefore(Layout, i) ==
    IF i = 1 THEN 0
    ELSE Layout.Intervals[i - 1].R.First
           + getTypeAllocSizeInBits(ValueOf(Layout, i - 1).ty)

\* the element of the struct S that is the value of interval i at the
\* first bit of the interval, the layout of S giving the place of the
\* element; 0 when there is none
ElementOf(S, Layout, i) ==
    LET Es == {k \in 1..Len(S.elts) :
                  /\ S.elts[k] = ValueOf(Layout, i)
                  /\ getElementOffsetInBits(S.ty, k - 1)
                       = Layout.Intervals[i].R.First}
    IN  IF Es = {} THEN 0 ELSE CHOOSE k \in Es : \A m \in Es : m <= k

ElementBefore(S, Layout, i) ==
    IF i = 1 THEN 0 ELSE ElementOf(S, Layout, i - 1)

\* the bytes between the element before interval i and the interval
GapBytes(Layout, i) ==
    (Layout.Intervals[i].R.First - EndBefore(Layout, i)) \div BITS_PER_UNIT

\* whether the struct is packed or the alignment of the value of interval
\* i does not move it from the end of the element before to its first bit
WantsFiller(S, Layout, i) ==
    \/ S.ty.packed
    \/ Layout.Intervals[i].R.First
         # RoundUp(EndBefore(Layout, i), NaturalAlignment(Layout.Intervals[i]))

\* whether every interval has its element, the elements following the
\* order of the intervals
EveryValueInPlace(S, Layout) ==
    \A i \in 1..Len(Layout.Intervals) :
        /\ ElementOf(S, Layout, i) # 0
        /\ ElementOf(S, Layout, i) > ElementBefore(S, Layout, i)

\* whether what lies before the element of every interval is the filler
\* of GapBytes undefined bytes when WantsFiller, one element unless there
\* is no byte to fill, and nothing otherwise
FillersAreRight(S, Layout) ==
    \A i \in 1..Len(Layout.Intervals) :
        /\ (Layout.Intervals[i].R.First - EndBefore(Layout, i)) % BITS_PER_UNIT = 0
        /\ IF WantsFiller(S, Layout, i) /\ GapBytes(Layout, i) > 0
           THEN /\ ElementOf(S, Layout, i) = ElementBefore(S, Layout, i) + 2
                /\ S.elts[ElementOf(S, Layout, i) - 1]
                     = UndefUnits(GapBytes(Layout, i))
           ELSE ElementOf(S, Layout, i) = ElementBefore(S, Layout, i) + 1

\* whether the elements come at increasing offsets, none of them reaching
\* the offset of the next one
InOffsetOrder(S) ==
    \A k \in 1..(Len(S.elts) - 1) :
        /\ getElementOffsetInBits(S.ty, k - 1) < getElementOffsetInBits(S.ty, k)
        /\ getElementOffsetInBits(S.ty, k - 1)
              + getTypeAllocSizeInBits(S.elts[k].ty)
             <= getElementOffsetInBits(S.ty, k)

\* C20: in the struct returned for a record constructor the value of every
\* interval is an element that the layout of the struct itself (contiguous
\* when packed, every element at its natural alignment when not) places at
\* the first bit of the interval; the elements come in increasing order of
\* offset and none overlaps the next; before the element of an interval
\* there is an undefined filler of (First - EndOfPrevious)/8 bytes exactly
\* when the struct is packed or the alignment of the value would not move
\* it from EndOfPrevious to First (no element where that is no byte at
\* all), and nothing otherwise
C20_ValuesAtTheirFirstBit ==
    pc = "converted" =>
        /\ EveryValueInPlace(acc, call.before)
        /\ FillersAreRight(acc, call.before)
        /\ InOffsetOrder(acc)

\* a struct that is not packed, with a 16-bit value that its alignment
\* brings from bit 8 to bit 16 without a filler
C20_Witness ==
    /\ pc = "converted"
    /\ ~acc.ty.packed
    /\ Len(call.before.Intervals) = 2
    /\ call.before.Intervals[2].R.First = 16
    /\ EndBefore(call.before, 2) = 8
    /\ ElementOf(acc, call.before, 2) = 2

\* a packed struct with a filler before its first value
C20_WitnessPackedFiller ==
    /\ pc = "converted"
    /\ acc.ty.packed
    /\ GapBytes(call.before, 1) = 1
    /\ ElementOf(acc, call.before, 1) = 2
    /\ acc.elts[1] = UndefUnits(1)

\* a struct that is not packed, with a filler that the alignment of the
\* value after it makes necessary
C20_WitnessNaturalFiller ==
    /\ pc = "converted"
    /\ ~acc.ty.packed
    /\ \E i \in 1..Len(call.before.Intervals) :
          /\ GapBytes(call.before, i) > 0
          /\ WantsFiller(acc, call.before, i)

\* a packed struct with no byte between two of its values, and no filler
C20_WitnessPackedNoGap ==
    /\ pc = "converted"
    /\ acc.ty.packed
    /\ Len(call.before.Intervals) = 2
    /\ GapBytes(call.before, 2) = 0
    /\ ElementOf(acc, call.before, 2) = ElementOf(acc, call.before, 1) + 1

-----------------------------------------------------------------------------
(* Array or struct: what ConvertArrayCONSTRUCTOR makes of its elements *)

\* union { unsigned char a; unsigned short b; } u[2], and the same with the
\* alignment of the array forced down to one byte
union2 == ARRAY_TYPE(union_a_b, 0, 2, 16)
union2align1 == ARRAY_TYPE(union_a_b, 0, 2, 8)
\* a vector of three bytes, which the target keeps in four
v3uchar == VECTOR_TYPE(uchar, 3, 32)

\* the constructors of type whose entries, MaxEntries at most, follow one
\* another from the first element on and have their values in Values
SequentialCtors(type, Values) ==
    {CONSTRUCTOR(type, [k \in 1..Len(q) |-> CONSTRUCTOR_ELT(Null, q[k])]) :
        q \in {r \in SeqsUpTo(Values, MaxEntries) : Len(r) > 0}}

\* a union with one of its parts initialized
UnionValues == {exp \in LayoutCtors(union_a_b) : Len(exp.elts) = 1}

EltsExps ==
    UNION {SequentialCtors(type, UnionValues) : type \in {union2, union2align1}}
      \cup UNION {SequentialCtors(type, {IntCst(TREE_TYPE(type), 10)}) :
                     type \in {uchar4, v4uchar, v3uchar, ucharN, ushort2,
                               ushort2align1}}

InitElts ==
    /\ BYTES_BIG_ENDIAN \in BOOLEAN
    /\ NDEBUG \in BOOLEAN
    /\ flag_default_initialize_globals \in BOOLEAN
    /\ isBigEndianHost = FALSE
    /\ pc = "start"
    /\ input \in [exp : EltsExps]
    /\ acc = Null
    /\ call = Null

NextElts == Convert

SpecElts == InitElts /\ [][NextElts]_vars

\* the element values of an array constructor once the entries are placed
\* and the elements left without a value are given the default one
EltsOf(exp) ==
    LET init_type == TREE_TYPE(exp)
        TypeElts == IF TREE_CODE(init_type) = "ARRAY_TYPE"
                    THEN ArrayLengthOf(init_type)
                    ELSE TYPE_VECTOR_SUBPARTS(init_type)
        Filled == FillElts(exp, 1,
                           IF TypeElts # NoSize THEN [i \in 1..TypeElts |-> Null]
                           ELSE <<>>,
                           0).Elts
    IN  [i \in 1..Len(Filled) |->
            IF Filled[i] = Null
            THEN getDefaultValue(ConvertType(TREE_TYPE(init_type)))
            ELSE Filled[i]]

\* whether every element value has the same type
OneType(Elts) == \A i, j \in 1..Len(Elts) : Elts[i].ty = Elts[j].ty

\* the greatest alignment, in bits, of the element values
LargestAlignment(Elts) ==
    LET aligns == {getABITypeAlignment(Elts[i].ty) * 8 : i \in 1..Len(Elts)}
    IN  CHOOSE a \in aligns : \A b \in aligns : b <= a

\* the bytes that the elements leave of the allocation size of the
\* converted type
MissingBytes(exp, Elts) ==
    Max(0, getTypeAllocSizeInBits(ConvertType(TREE_TYPE(exp)))
             - Len(Elts)
                 * getTypeAllocSizeInBits(ConvertType(TREE_TYPE(TREE_TYPE(exp)))))
       \div BITS_PER_UNIT

\* whether the conditions of a natural array or vector hold
NaturalCase(exp, Elts) ==
    /\ OneType(Elts)
    /\ LargestAlignment(Elts) <= TYPE_ALIGN(TREE_TYPE(exp))
    /\ MissingBytes(exp, Elts) = 0

\* the array or the vector of the elements
NaturalResult(exp, Elts) ==
    IF TREE_CODE(TREE_TYPE(exp)) = "VECTOR_TYPE"
         /\ Elts[1].ty = ConvertType(TREE_TYPE(TREE_TYPE(exp)))
    THEN [ty |-> VectorType(Elts[1].ty, Len(Elts)), elts |-> Elts]
    ELSE [ty |-> ArrayType(Elts[1].ty, Len(Elts)), elts |-> Elts]

\* the struct of the elements and of the trailing filler where bytes are
\* missing
StructResult(exp, Elts) ==
    LET All == IF MissingBytes(exp, Elts) > 0
               THEN Append(Elts, UndefUnits(MissingBytes(exp, Elts)))
               ELSE Elts
    IN  [ty |-> StructType([i \in 1..Len(All) |-> All[i].ty],
                           LargestAlignment(Elts) > TYPE_ALIGN(TREE_TYPE(exp))),
         elts |-> All]

\* C21: the constant returned for an array or vector constructor with at
\* least one element is the natural array (the vector, when the type is a
\* vector and the elements have the converted element type) if and only
\* if the element values have one type, whose alignment does not exceed
\* that of the declared type, and no trailing padding is needed; otherwise
\* it is the struct of the elements, packed exactly when the largest
\* alignment of an element exceeds the declared alignment, with one
\* trailing undefined filler of the missing bytes where the elements do
\* not reach the allocation size of the converted type
C21_ArrayOrStruct ==
    (pc = "converted" /\ Len(EltsOf(input.exp)) > 0) =>
        /\ acc.ty.id \in {"Array", "Vector"}
              <=> NaturalCase(input.exp, EltsOf(input.exp))
        /\ acc = IF NaturalCase(input.exp, EltsOf(input.exp))
                 THEN NaturalResult(input.exp, EltsOf(input.exp))
                 ELSE StructResult(input.exp, EltsOf(input.exp))

\* an array of unions with different parts initialized, the second more
\* aligned than the first and than the array: a packed struct
C21_Witness ==
    /\ pc = "converted"
    /\ TREE_TYPE(input.exp) = union2align1
    /\ ~OneType(EltsOf(input.exp))
    /\ getABITypeAlignment(EltsOf(input.exp)[1].ty) = 1
    /\ acc.ty.id = "Struct"
    /\ acc.ty.packed

\* elements of different types in a struct that is not packed
C21_WitnessStruct ==
    /\ pc = "converted"
    /\ ~OneType(EltsOf(input.exp))
    /\ acc.ty.id = "Struct"
    /\ ~acc.ty.packed

\* a struct with the trailing filler
C21_WitnessFiller ==
    /\ pc = "converted"
    /\ MissingBytes(input.exp, EltsOf(input.exp)) = 1
    /\ acc.ty.id = "Struct"
    /\ Len(acc.elts) = 4

\* a natural array and a vector
C21_WitnessArray ==
    /\ pc = "converted"
    /\ acc.ty.id = "Array"
    /\ TREE_TYPE(input.exp) = union2

C21_WitnessVector ==
    /\ pc = "converted"
    /\ acc.ty.id = "Vector"

-----------------------------------------------------------------------------
(* ViewAsBits applied to a struct, an array or a vector and a range *)

A3xI16 == ArrayType(I16, 3)
A2xS == ArrayType(S_I8_I8, 2)
V4xI8 == VectorType(I8, 4)

\* the struct types and the array and vector types viewed
ViewStructTypes == {S_I8_I8, S_I8_I16, P_I8_I16}
ViewSequenceTypes == {A2xI8, V2xI8, A3xI16, A2xS, V4xI8}

ViewConstants ==
    {Sample(Ty, j) : Ty \in ViewStructTypes \cup ViewSequenceTypes, j \in Patterns}
      \cup {ConstantStructOf(S_I8_I16, <<UndefValue(I8), Sample(I16, 1)>>)}

\* the bits where the ranges asked for begin and end
ViewBits == {0 - 4, 0, 4, 8, 12, 16, 24, 32, 48, 56}
ViewRanges == {Range(f, l) : f \in ViewBits, l \in ViewBits}

InitView ==
    /\ BYTES_BIG_ENDIAN \in BOOLEAN
    /\ NDEBUG \in BOOLEAN
    /\ flag_default_initialize_globals = TRUE
    /\ isBigEndianHost = FALSE
    /\ pc = "start"
    /\ input \in [C : ViewConstants, R : ViewRanges]
    /\ acc = Null
    /\ call = Null

\* ViewAsBits(C, R)
View ==
    /\ pc = "start"
    /\ acc' = ViewAsBits(input.C, input.R)
    /\ call' = [op |-> "ViewAsBits", C |-> input.C, R |-> input.R]
    /\ pc' = AfterStep(acc', "viewed")
    /\ UNCHANGED <<target, input>>

NextView == View

SpecView == InitView /\ [][NextView]_vars

\* the range asked for, clipped to the store size of the constant
Clipped(C, R) == RMeet(R, Range(0, getTypeStoreSizeInBits(C.ty)))

\* whether the slice S holds bit p with the value it has in the memory of C
HoldsBit(S, C, p) ==
    /\ ~empty(S)
    /\ S.R.First <= p
    /\ p < S.R.Last
    /\ SliceBit(S, p) = ImageBit(C, p)

\* whether the slice holds every defined bit of C that lies in R
HoldsDefinedBits(S, C, R) ==
    \A p \in R.First..(R.Last - 1) : ImageBit(C, p) # U => HoldsBit(S, C, p)

\* whether R is a non-empty range inside the store size of C
InsideStore(C, R) ==
    /\ ~REmpty(R)
    /\ RContains(Range(0, getTypeStoreSizeInBits(C.ty)), R)

\* C22: ViewAsBits of a struct constant and a non-empty range R inside the
\* store size of the struct returns, without a fault, a slice that holds
\* every defined bit of the struct that lies in R, whether or not the first
\* and the last bit of R are multiples of 8
C22_StructBitsOfRange ==
    (input.C.ty.id = "Struct" /\ InsideStore(input.C, input.R)) =>
        /\ pc \notin {"fault", "undefined"}
        /\ pc = "viewed" => HoldsDefinedBits(acc, input.C, input.R)

\* the same for the ranges whose first bit is a multiple of 8
C22_StructBitsOfAlignedRange ==
    (input.C.ty.id = "Struct" /\ InsideStore(input.C, input.R)
        /\ input.R.First % BITS_PER_UNIT = 0) =>
        /\ pc \notin {"fault", "undefined"}
        /\ pc = "viewed" => HoldsDefinedBits(acc, input.C, input.R)

\* a struct viewed from the middle of its first byte on
C22_Witness ==
    /\ pc = "viewed"
    /\ input.C.ty = S_I8_I8
    /\ input.R = Range(4, 16)

\* a struct viewed up to the middle of its last byte
C22_WitnessLast ==
    /\ pc = "viewed"
    /\ input.C.ty = S_I8_I16
    /\ input.R = Range(0, 24)
    /\ HoldsDefinedBits(acc, input.C, input.R)

\* the alloc size of the elements of an array or vector constant
StrideOf(C) == getTypeAllocSizeInBits(C.ty.elt)

\* the bits of the elements floor(First / Stride) .. ceil(Last / Stride) - 1
VisitedBits(C, R) ==
    Range((R.First \div StrideOf(C)) * StrideOf(C),
          ((R.Last + StrideOf(C) - 1) \div StrideOf(C)) * StrideOf(C))

\* C23: ViewAsBits of an array or vector constant with stride S and a range
\* R never faults (no element at or beyond the element count is asked
\* for); when R clipped to the store size is empty the slice returned is
\* empty; otherwise the slice is over the bits of the elements
\* floor(R.First / S) .. ceil(R.Last / S) - 1 of the clipped range, no
\* more and no less, and every defined bit of those elements is in the
\* slice at its place, with its value
C23_ElementsOfRange ==
    input.C.ty.id \in {"Array", "Vector"} =>
        /\ pc \notin {"fault", "undefined"}
        /\ pc = "viewed" =>
              IF REmpty(Clipped(input.C, input.R)) THEN empty(acc)
              ELSE /\ ~empty(acc)
                   /\ acc.R = VisitedBits(input.C, Clipped(input.C, input.R))
                   /\ acc.R.Last <= input.C.ty.n * StrideOf(input.C)
                   /\ HoldsDefinedBits(acc, input.C, acc.R)

\* the second of three 16-bit elements alone, for a range within it
C23_Witness ==
    /\ pc = "viewed"
    /\ input.C.ty = A3xI16
    /\ input.R = Range(24, 32)
    /\ acc.R = Range(16, 32)

\* a range that begins before the array and ends after it
C23_WitnessClipped ==
    /\ pc = "viewed"
    /\ input.C.ty = V4xI8
    /\ input.R = Range(0 - 4, 48)
    /\ acc.R = Range(0, 32)

\* a range that lies after the array
C23_WitnessEmpty ==
    /\ pc = "viewed"
    /\ input.C.ty = A2xI8
    /\ input.R = Range(16, 24)
    /\ empty(acc)

-----------------------------------------------------------------------------
(* One operation of a BitSlice, whatever its argument *)

InitOps ==
    /\ BYTES_BIG_ENDIAN \in BOOLEAN
    /\ NDEBUG \in BOOLEAN
    /\ flag_default_initialize_globals = TRUE
    /\ isBigEndianHost = FALSE
    /\ pc = "start"
    /\ input \in [op : {"ExtendRange", "ReduceRange", "getBits"},
                  S : ValidSlices, r : ArgRanges]
                   \cup [op : {"Merge"}, S : ValidSlices, other : ValidSlices]
    /\ acc = Null
    /\ call = Null

\* what the call of input.op leaves: the value returned (for Merge the
\* slice itself) and the slice the operation was applied to
AfterCall(new) ==
    /\ acc' = new
    /\ call' = [op |-> input.op, this |-> input.S]
    /\ pc' = AfterStep(new, "returned")
    /\ UNCHANGED <<target, input>>

\* S.ExtendRange(r)
CallExtendRange ==
    /\ pc = "start"
    /\ input.op = "ExtendRange"
    /\ AfterCall(ExtendRange(input.S, input.r))

\* S.ReduceRange(r)
CallReduceRange ==
    /\ pc = "start"
    /\ input.op = "ReduceRange"
    /\ AfterCall(ReduceRange(input.S, input.r))

\* S.getBits(r)
CallGetBits ==
    /\ pc = "start"
    /\ input.op = "getBits"
    /\ AfterCall(getBits(input.S, input.r))

\* S.Merge(other)
CallMerge ==
    /\ pc = "start"
    /\ input.op = "Merge"
    /\ AfterCall(Merge(input.S, input.other))

NextOps == CallExtendRange \/ CallReduceRange \/ CallGetBits \/ CallMerge

SpecOps == InitOps /\ [][NextOps]_vars

\* whether C is an integer constant of w bits
IsIntegerOfWidth(C, w) ==
    /\ ~IsBad(C)
    /\ C # Null
    /\ C.ty = IntegerType(w)

\* whether every defined bit of the slice S that lies in r is, in the
\* integer C taken as the contents of a slice over r, at its place
BitsOfSliceIn(C, r, S) ==
    \A p \in Max(r.First, S.R.First)..(Min(r.Last, S.R.Last) - 1) :
        SliceBit(S, p) # U
            => SliceBit([R |-> r, Contents |-> C], p) = SliceBit(S, p)

\* C24: for a non-empty range r, getBits(r) returns without a fault an
\* integer constant of exactly |r| bits: the contents of the slice
\* themselves when r is the range of the slice, an undefined value when the
\* slice is empty, and otherwise the contents of the slice extended to the
\* convex hull of r and its range and reduced to r, in which every bit of
\* r that lies in the range of the slice has the value the slice gives it,
\* at the place the byte order gives it; the slice is as it was
C24_GetBits ==
    (input.op = "getBits" /\ ~REmpty(input.r)) =>
        /\ pc \notin {"fault", "undefined"}
        /\ pc = "returned" =>
              /\ IsIntegerOfWidth(acc, RWidth(input.r))
              /\ REq(input.S.R, input.r) => acc = input.S.Contents
              /\ empty(input.S) => acc = UndefValue(IntegerType(RWidth(input.r)))
              /\ (~empty(input.S) /\ ~REq(input.S.R, input.r)) =>
                    /\ acc = ReduceRange(ExtendRange(input.S,
                                                     RJoin(input.r, input.S.R)),
                                         input.r).Contents
                    /\ BitsOfSliceIn(acc, input.r, input.S)
              /\ call.this = input.S

\* the bits of a range that overlaps the slice at one end only
C24_Witness ==
    /\ pc = "returned"
    /\ input.op = "getBits"
    /\ input.S.R = Range(0, 2)
    /\ input.r = Range(1, 4)
    /\ ~IsUndef(input.S.Contents)
    /\ IsIntegerOfWidth(acc, 3)

\* the bits of a range that the slice does not touch
C24_WitnessApart ==
    /\ pc = "returned"
    /\ input.op = "getBits"
    /\ input.S.R = Range(0, 1)
    /\ input.r = Range(2, 4)
    /\ IsIntegerOfWidth(acc, 2)

\* the number that the bits of an integer constant spell
ValueOfBits(C) == BitsToNat(C.bits)

\* C25: for a non-empty slice with range R and defined contents v and a
\* range r that strictly contains R, ExtendRange(r) returns a slice over r
\* whose contents are v zero-extended to |r| bits and shifted left by
\* R.First - r.First on a little-endian target and by r.Last - R.Last on a
\* big-endian one; for an empty slice and a non-empty r it returns
\* undefined contents over r; for r equal to R it returns the slice as it
\* is
C25_ExtendRange ==
    (input.op = "ExtendRange" /\ RContains(input.r, input.S.R)) =>
        /\ pc \notin {"fault", "undefined"}
        /\ pc = "returned" =>
              /\ REq(input.r, input.S.R) => acc = input.S
              /\ (empty(input.S) /\ ~REmpty(input.r)) =>
                    acc = [R |-> input.r,
                           Contents |-> UndefValue(IntegerType(RWidth(input.r)))]
              /\ (~empty(input.S) /\ ~REq(input.r, input.S.R)
                    /\ ~IsUndef(input.S.Contents)) =>
                    /\ acc.R = input.r
                    /\ IsIntegerOfWidth(acc.Contents, RWidth(input.r))
                    /\ ~IsUndef(acc.Contents)
                    /\ ValueOfBits(acc.Contents)
                         = ValueOfBits(input.S.Contents)
                             * 2 ^ (IF BYTES_BIG_ENDIAN
                                    THEN input.r.Last - input.S.R.Last
                                    ELSE input.S.R.First - input.r.First)

\* a slice extended at both ends, by different numbers of bits
C25_Witness ==
    /\ pc = "returned"
    /\ input.op = "ExtendRange"
    /\ input.S.R = Range(1, 3)
    /\ input.r = Range(0 - 1, 4)
    /\ ~IsUndef(input.S.Contents)
    /\ ValueOfBits(input.S.Contents) = 3

\* whether the precondition of the operation asked for is violated
PreconditionViolated ==
    CASE input.op = "ExtendRange" -> ~RContains(input.r, input.S.R)
      [] input.op = "ReduceRange" -> ~RContains(input.S.R, input.r)
      [] input.op = "getBits" -> REmpty(input.r)
      [] input.op = "Merge" -> /\ ~empty(input.S)
                               /\ ~empty(input.other)
                               /\ RIntersects(input.S.R, input.other.R)

\* C26: ExtendRange(r) faults if and only if r does not contain the range
\* of the slice, ReduceRange(r) if and only if r is not contained in it,
\* getBits(r) if and only if r is empty, Merge(other) if and only if both
\* slices are non-empty and their ranges intersect; an operation that does
\* not fault returns a result
C26_FaultIffPrecondition ==
    pc # "start" =>
        /\ pc = "fault" <=> PreconditionViolated
        /\ pc # "fault" => (pc = "returned" /\ ~IsBad(acc))

\* the same in a build with assertions
C26_FaultWithAssertions ==
    (pc # "start" /\ ~NDEBUG) =>
        /\ pc = "fault" <=> PreconditionViolated
        /\ pc # "fault" => (pc = "returned" /\ ~IsBad(acc))

\* in a build without them no operation faults, and an operation whose
\* precondition holds returns a result
C26_NoFaultWithoutAssertions ==
    (pc # "start" /\ NDEBUG) =>
        /\ pc # "fault"
        /\ ~PreconditionViolated => (pc = "returned" /\ ~IsBad(acc))

\* a Merge with an empty operand whose range would intersect
C26_WitnessMergeEmpty ==
    /\ pc = "returned"
    /\ input.op = "Merge"
    /\ empty(input.other)
    /\ ~empty(input.S)

\* a Merge of slices that overlap, in a build with assertions
C26_WitnessOverlap ==
    /\ pc = "fault"
    /\ input.op = "Merge"
    /\ input.S.R = Range(0, 2)
    /\ input.other.R = Range(1, 3)

-----------------------------------------------------------------------------
(* A FieldContents made by get, given another range or not, and then asked *)
(* for its contents.                                                       *)

I24 == IntegerType(24)

\* the constants a field is given
FieldConstants ==
    {Sample(Ty, j) : Ty \in {I4, I8, I16, I24, I32, A2xI8, S_I8_I16, P_I8_I16},
                     j \in Patterns}
      \cup {UndefValue(I16)}

\* the first bits of the fields, and the ranges they are changed to
FieldFirstBits == {0, 4, 8}
ChangedRanges ==
    {Range(f, f + w) : f \in {0, 8, 16}, w \in {0, 8, 16, 24, 32}}

\* FieldContents::get(first, last, c), the range being that of the bits of
\* c or empty; an array or a struct starts at a byte
InitExtract ==
    /\ BYTES_BIG_ENDIAN \in BOOLEAN
    /\ NDEBUG \in BOOLEAN
    /\ flag_default_initialize_globals = TRUE
    /\ isBigEndianHost = FALSE
    /\ pc = "field"
    /\ input \in [c : FieldConstants, first : FieldFirstBits, sized : BOOLEAN]
    /\ IsAggregateTy(input.c.ty) => input.first % BITS_PER_UNIT = 0
    /\ acc = FieldContents_get(input.first,
                               IF input.sized
                               THEN input.first + getTypeSizeInBits(input.c.ty)
                               ELSE input.first,
                               input.c)
    /\ call = [op |-> "get", this |-> Null]

\* F.ChangeRangeTo(r)
CallChangeRangeTo ==
    /\ pc = "field"
    /\ call.op = "get"
    /\ \E r \in ChangedRanges : acc' = ChangeRangeTo(acc, r)
    /\ call' = [op |-> "ChangeRangeTo", this |-> acc]
    /\ pc' = "field"
    /\ UNCHANGED <<target, input>>

\* F.extractContents(TD)
CallExtractContents ==
    /\ pc = "field"
    /\ acc' = extractContents(acc)
    /\ call' = [op |-> "extractContents", this |-> acc]
    /\ pc' = AfterStep(acc', "extracted")
    /\ UNCHANGED <<target, input>>

NextExtract == CallChangeRangeTo \/ CallExtractContents

SpecExtract == InitExtract /\ [][NextExtract]_vars

\* what a FieldContents holds at bit p: the bit of the memory image of its
\* constant, the constant being placed at bit Starts
BitOfField(F, p) ==
    IF F.C = Null THEN U ELSE ImageBit(F.C, p - F.Starts)

\* whether the constant C holds every defined bit of the range of F, the
\* first bit of the range being bit 0 of C
HoldsTheRange(C, F) ==
    \A p \in F.R.First..(F.R.Last - 1) :
        BitOfField(F, p) # U => ImageBit(C, p - F.R.First) = BitOfField(F, p)

\* C27: extractContents of a FieldContents whose range has a width that is
\* a multiple of 8 returns a constant that takes no more room than the
\* range is wide and that holds every defined bit of the range, the first
\* bit of the range first; it is the stored constant itself when that
\* constant starts at the first bit of the range and takes no more room
\* than the range, and a constant of size zero when the range is empty
C27_ExtractContents ==
    (call.op = "extractContents" /\ RWidth(call.this.R) % BITS_PER_UNIT = 0) =>
        /\ pc = "extracted"
        /\ getTypeAllocSizeInBits(acc.ty) <= RWidth(call.this.R)
        /\ HoldsTheRange(acc, call.this)
        /\ (/\ call.this.Starts = call.this.R.First
            /\ getTypeAllocSizeInBits(call.this.C.ty) <= RWidth(call.this.R))
              => acc = call.this.C
        /\ REmpty(call.this.R) => getTypeAllocSizeInBits(acc.ty) = 0

\* whether getAsBits of F asks InterpretAsType for the type the constant has
\* already, at another bit than its first
SameTypeElsewhere(F) ==
    /\ ~REmpty(F.R)
    /\ F.R.First # F.Starts
    /\ F.C.ty = IntegerType(RWidth(F.R))

\* the same for every FieldContents but those whose constant is an integer
\* as wide as the range that does not start at the first bit of the range
C27_ExtractContentsOfAnotherType ==
    (/\ call.op = "extractContents"
     /\ RWidth(call.this.R) % BITS_PER_UNIT = 0
     /\ ~SameTypeElsewhere(call.this)) =>
        /\ pc = "extracted"
        /\ getTypeAllocSizeInBits(acc.ty) <= RWidth(call.this.R)
        /\ HoldsTheRange(acc, call.this)
        /\ (/\ call.this.Starts = call.this.R.First
            /\ getTypeAllocSizeInBits(call.this.C.ty) <= RWidth(call.this.R))
              => acc = call.this.C
        /\ REmpty(call.this.R) => getTypeAllocSizeInBits(acc.ty) = 0

-----------------------------------------------------------------------------
(* The alignment of the slots of the cache of literal constants *)

\* the alignment of a global variable, in bits: setAlignment is given bytes
AlignmentInBits(GV) == GV.align * BITS_PER_UNIT

\* C29: in any sequence of requests for the address of literal constants
\* the slot returned for an expression is aligned at least as the type of
\* the expression requires, also when the slot comes from the cache and was
\* made for an earlier expression of another type that gave the same
\* constant
C29_SlotAlignment ==
    \A i \in 1..Len(call.log) :
        AlignmentInBits(call.log[i].addr)
            >= TYPE_ALIGN(TREE_TYPE(call.log[i].exp))

\* the first request of a constant
FirstRequestOf(i) ==
    CHOOSE j \in 1..i :
        /\ call.log[j].init = call.log[i].init
        /\ \A k \in 1..(j - 1) : call.log[k].init # call.log[i].init

\* every slot has the alignment that AddressOfCST gave it for the first
\* expression that asked for its constant, whatever asked for it later
C29_AlignmentOfTheFirstRequest ==
    \A i \in 1..Len(call.log) :
        call.log[i].addr.align
            = TYPE_ALIGN(TREE_TYPE(call.log[FirstRequestOf(i)].exp))

\* a slot made for an unsigned char and returned for an unsigned char of a
\* type aligned to 16 bytes
C29_WitnessServedFromCache ==
    /\ Len(call.log) = 2
    /\ call.log[1].exp = IntCst(uchar, 165)
    /\ call.log[2].exp = IntCst(uchar_aligned16, 165)
    /\ call.log[2].addr = call.log[1].addr

-----------------------------------------------------------------------------
(* Two threads that take the address of a literal constant each.  The      *)
(* source has no lock around CSTCache, so the steps of AddressOfCST in the *)
(* two threads come in any order.  pc, input and call have one value for   *)
(* each thread; acc is the process, as in SpecCST.                         *)

Threads == {1, 2}
OtherThread(t) == 3 - t

\* the position in CSTCache of the entry of Init, 0 when it has none
EntryOf(CSTCache, Init) ==
    IF \E k \in 1..Len(CSTCache) : CSTCache[k].key = Init
    THEN CHOOSE k \in 1..Len(CSTCache) : CSTCache[k].key = Init
    ELSE 0

\* CSTCache after CSTCache[Init]: operator[] makes an entry with a null slot
\* for a key the map does not have
WithEntryOf(CSTCache, Init) ==
    IF EntryOf(CSTCache, Init) # 0 THEN CSTCache
    ELSE Append(CSTCache, [key |-> Init, slot |-> Null])

InitRace ==
    /\ BYTES_BIG_ENDIAN \in BOOLEAN
    /\ NDEBUG \in BOOLEAN
    /\ flag_default_initialize_globals = TRUE
    /\ isBigEndianHost = FALSE
    /\ pc = [t \in Threads |-> "start"]
    /\ input \in [Threads -> LiteralExps]
    /\ acc = [CSTCache |-> <<>>, Globals |-> <<>>]
    /\ call = [t \in Threads |->
                  [Init |-> Null, Slot |-> 0, Size |-> 0, Addr |-> Null,
                   overlapped |-> FALSE]]

\* whether thread t is between its lookup in CSTCache and its return
Inside(t) == pc[t] = "create"

\* what a step of thread t may leave in place of its effect when the other
\* thread is inside AddressOfCST: the two use the map without any
\* synchronization, which is a data race
Raced(t) ==
    /\ Inside(OtherThread(t))
    /\ pc' = [pc EXCEPT ![t] = "undefined"]
    /\ call' = [call EXCEPT ![t].overlapped = TRUE]
    /\ UNCHANGED <<target, input, acc>>

\* thread t: Init = ConvertInitializer(exp); Slot = CSTCache[Init];
\* if (Slot) return Slot
Lookup(t) ==
    /\ pc[t] = "start"
    /\ \/ With(ConvertInitializer(input[t]), LAMBDA Init :
           With(WithEntryOf(acc.CSTCache, Init), LAMBDA Cache :
           With(EntryOf(Cache, Init), LAMBDA k :
               /\ acc' = [acc EXCEPT !.CSTCache = Cache]
               /\ pc' = [pc EXCEPT ![t] = IF Cache[k].slot # Null
                                          THEN "done" ELSE "create"]
               /\ call' = [call EXCEPT
                              ![t] = [Init |-> Init, Slot |-> k,
                                      Size |-> Len(Cache),
                                      Addr |-> Cache[k].slot,
                                      overlapped |-> Inside(OtherThread(t))]]
               /\ UNCHANGED <<target, input>>)))
       \/ Raced(t)

\* thread t: Slot = new GlobalVariable(...); Slot->setAlignment(align);
\* return Slot.  Slot is a reference into the map: an entry made by the
\* other thread since the lookup may have moved the buckets, and then the
\* assignment writes to freed memory and the map may not see it.
Create(t) ==
    /\ pc[t] = "create"
    /\ \/ With(GlobalVariable(Len(acc.Globals) + 1, call[t].Init,
                              TYPE_ALIGN(TREE_TYPE(input[t]))),
               LAMBDA New :
                   /\ \/ acc' = [CSTCache |->
                                     [acc.CSTCache EXCEPT ![call[t].Slot].slot = New],
                                 Globals |-> Append(acc.Globals, New)]
                      \/ /\ Len(acc.CSTCache) # call[t].Size
                         /\ acc' = [acc EXCEPT !.Globals = Append(acc.Globals, New)]
                   /\ pc' = [pc EXCEPT ![t] = "done"]
                   /\ call' = [call EXCEPT ![t].Addr = New]
                   /\ UNCHANGED <<target, input>>)
       \/ Raced(t)

NextRace == \E t \in Threads : Lookup(t) \/ Create(t)

SpecRace == InitRace /\ [][NextRace]_vars

\* both threads have returned from a request of the same constant
BothReturnedOne ==
    /\ \A t \in Threads : pc[t] = "done"
    /\ call[1].Init = call[2].Init

\* the slots of the module made for the constant Init
SlotsOf(Init) == {k \in 1..Len(acc.Globals) : acc.Globals[k].init = Init}

\* C28: the cache of literal constants is guarded by mutual exclusion: the
\* lookup and the insertion of one thread are never interleaved with those
\* of the other, no request ends undefined, and when the two threads have
\* asked for literals that give the same constant one slot was made for it
\* and both were returned that slot
C28_MutualExclusion ==
    /\ ~(Inside(1) /\ Inside(2))
    /\ \A t \in Threads : pc[t] # "undefined"
    /\ BothReturnedOne =>
          /\ Cardinality(SlotsOf(call[1].Init)) = 1
          /\ call[1].Addr = call[2].Addr

\* when the calls of the two threads did not overlap, which is what a lock
\* would ensure, one slot is made and both threads are returned it
C28_OneSlotWhenNotOverlapped ==
    (\A t \in Threads : ~call[t].overlapped) =>
        /\ \A t \in Threads : pc[t] # "undefined"
        /\ BothReturnedOne =>
              /\ Cardinality(SlotsOf(call[1].Init)) = 1
              /\ call[1].Addr = call[2].Addr

\* two slots for one constant, one returned to each thread
C28_WitnessTwoSlots ==
    /\ BothReturnedOne
    /\ Cardinality(SlotsOf(call[1].Init)) = 2
    /\ call[1].Addr # call[2].Addr

====
